---- MODULE Spec2Model ----
(***************************************************************************)
(* Column-level lineage resolution of SmallDear/processor_sql.             *)
(*                                                                         *)
(* Python strings are modelled as sequences of one-character strings, so   *)
(* that upper(), lower(), split('.'), strip() and rstrip() are computed    *)
(* and not assumed.  A statement is the sequence of its whitespace         *)
(* separated words (what str.split() returns, before upper-casing).        *)
(***************************************************************************)
EXTENDS Integers, Sequences, FiniteSets, TLC

VARIABLES
    rs_pc,            \* resolver harness: "input" | "done"
    cytoscape_data,   \* the parser's graph handed to the resolver
    rs_temp_tables,   \* the ephemeral set handed to the resolver
    lineage_paths,    \* result of trace_lineage_through_subqueries
    rs_subquery_nodes, \* second result of trace_lineage_through_subqueries
    nm_pc,            \* naming harness: "input" | "done"
    nm_calls,         \* two script invocations holding a subquery a
    nm_names,         \* the table names the subquery gets in each
    pc,               \* engine: "idle" | "loop" | "returned" | "raised"
    run,              \* number of calls of lineage_analysis made so far
    run_limit,        \* number of calls the process makes in all
    call_entry,       \* the arguments sql / file of lineage_analysis
    script_text,      \* the script text: the inline sql or the file's content
    metadata_loaded,  \* is_metadata_loaded('metadata_config_template')
    global_metadata_provider,  \* the module-level _global_metadata_provider
    args,             \* etl_system, etl_job, sql_path of process_sql_script
    temp_table_set,   \* process_sql_script: temp_tables
    sql_statements,   \* process_sql_script: the split statements
    sql_index,        \* process_sql_script: statements processed so far
    current_db,       \* process_sql_script: current_database
    all_lineage_records,  \* process_sql_script: the accumulated records
    parser_calls,     \* the LineageRunner constructions of the current call
    oracle_statements,\* what the latest call of lineage_analysis returned
    first_result,     \* what the first call of lineage_analysis returned
    nz_pc,            \* normalizer harness: "input" | "done"
    nz_input,         \* a resolved pair and the context it is normalized in
    nz_source_info,   \* extract_database_table_column of the pair's source
    nz_target_info,   \* extract_database_table_column of the pair's target
    nz_records,       \* the records process_cytoscape_lineage makes of the pair
    zc_pc,            \* each service instance's position in start_service / cleanup
    zc_starts,        \* number of start_service calls each instance has made
    zc_named,         \* the segment the shared memory name refers to (0: none)
    zc_buf,           \* the content of every segment created so far
    zc_shared_memories, \* each instance's self.shared_memories[name] (0: no entry)
    zc_is_creator,    \* each instance's self.is_creator
    zc_created,       \* the segments each instance has created so far
    tr_pc,            \* tracing: "input" | "tracing" | "searching" | "done"
    tr_call,          \* the call being run: the function and its arguments
    tr_stack,         \* the frames of the recursive tracing calls, innermost last
    tr_queue,         \* has_intermediate_path: queue
    tr_visited,       \* has_intermediate_path: visited
    tr_result,        \* <<v>> once the call has returned v, <<>> before
    op_pc,            \* OptimizedSQLLineageProcessor: "input" | "loop" | "returned"
    op_script,        \* the sql_script given to its process_sql_script
    op_temp_tables,   \* self.temp_tables
    op_sql_statements, \* process_sql_script: sql_statements
    op_index,         \* process_sql_script: statements processed so far
    op_lineage_records, \* self.lineage_records
    op_oracle_statements, \* what process_sql_script returned
    md_calls,         \* the metadata_file_name of each call of get_metadata_for_lineage
    md_loaded,        \* the metadata files the metadata service has loaded
    md_provider,      \* the module-level _global_metadata_provider
    md_returned       \* what each call made so far returned

rs_vars == <<rs_pc, cytoscape_data, rs_temp_tables, lineage_paths, rs_subquery_nodes>>

engine_vars == <<pc, run, run_limit, call_entry, script_text, metadata_loaded,
                 global_metadata_provider, args, temp_table_set, sql_statements,
                 sql_index, current_db, all_lineage_records, parser_calls,
                 oracle_statements, first_result>>

nm_vars == <<nm_pc, nm_calls, nm_names>>

nz_vars == <<nz_pc, nz_input, nz_source_info, nz_target_info, nz_records>>

zc_vars == <<zc_pc, zc_starts, zc_named, zc_buf, zc_shared_memories, zc_is_creator,
            zc_created>>

tr_vars == <<tr_pc, tr_call, tr_stack, tr_queue, tr_visited, tr_result>>

op_vars == <<op_pc, op_script, op_temp_tables, op_sql_statements, op_index,
             op_lineage_records, op_oracle_statements>>

md_vars == <<md_calls, md_loaded, md_provider, md_returned>>

later_vars == <<tr_vars, op_vars, md_vars>>

aux_vars == <<nz_vars, zc_vars, later_vars>>

vars == <<rs_vars, nm_vars, engine_vars, aux_vars>>

(***************************************************************************)
(* Bounds                                                                  *)
(***************************************************************************)
MaxEdges == 3
MaxStmts == 3
MaxRerunStmts == 2
MaxStarts == 2
RunsPerProcess == 2

(***************************************************************************)
(* Python str operations                                                   *)
(***************************************************************************)
\* str.upper and str.lower character by character
UpperOf ==
    [a |-> "A", b |-> "B", c |-> "C", d |-> "D", e |-> "E", f |-> "F",
     g |-> "G", h |-> "H", i |-> "I", j |-> "J", k |-> "K", l |-> "L",
     m |-> "M", n |-> "N", o |-> "O", p |-> "P", q |-> "Q", r |-> "R",
     s |-> "S", t |-> "T", u |-> "U", v |-> "V", w |-> "W", x |-> "X",
     y |-> "Y", z |-> "Z"]

LowerOf ==
    [A |-> "a", B |-> "b", C |-> "c", D |-> "d", E |-> "e", F |-> "f",
     G |-> "g", H |-> "h", I |-> "i", J |-> "j", K |-> "k", L |-> "l",
     M |-> "m", N |-> "n", O |-> "o", P |-> "p", Q |-> "q", R |-> "r",
     S |-> "s", T |-> "t", U |-> "u", V |-> "v", W |-> "w", X |-> "x",
     Y |-> "y", Z |-> "z"]

LowerLetters == DOMAIN UpperOf
UpperLetters == DOMAIN LowerOf

upper_char(c) == IF c \in LowerLetters THEN UpperOf[c] ELSE c

lower_char(c) == IF c \in UpperLetters THEN LowerOf[c] ELSE c

upper(s) == [k \in 1..Len(s) |-> upper_char(s[k])]

lower(s) == [k \in 1..Len(s) |-> lower_char(s[k])]

\* c in s
contains(s, c) == \E k \in 1..Len(s) : s[k] = c

\* s.split(sep) for a one-character separator: always at least one part
RECURSIVE split(_, _)
split(s, sep) ==
    IF ~contains(s, sep) THEN <<s>>
    ELSE LET k == CHOOSE j \in 1..Len(s) :
                    s[j] = sep /\ \A h \in 1..(j-1) : s[h] # sep
         IN  <<SubSeq(s, 1, k-1)>> \o split(SubSeq(s, k+1, Len(s)), sep)

\* s.rstrip(chars)
RECURSIVE rstrip(_, _)
rstrip(s, chars) ==
    IF s # <<>> /\ s[Len(s)] \in chars
    THEN rstrip(SubSeq(s, 1, Len(s)-1), chars)
    ELSE s

\* s.lstrip(chars)
RECURSIVE lstrip(_, _)
lstrip(s, chars) ==
    IF s # <<>> /\ s[1] \in chars
    THEN lstrip(Tail(s), chars)
    ELSE s

\* s.strip(chars)
strip(s, chars) == rstrip(lstrip(s, chars), chars)

\* the backtick character (the lexer admits no backtick inside a string)
Backtick == "BACKTICK"

\* the double-quote character
DoubleQuote == "DQUOTE"

\* the characters stripped by strip of backtick, double quote, [ and ]
QuoteChars == {Backtick, DoubleQuote, "[", "]"}

\* list membership
in_list(x, l) == \E k \in 1..Len(l) : l[k] = x

\* Python dict.get(key, default) on a record
get(data, key, default) == IF key \in DOMAIN data THEN data[key] ELSE default

(***************************************************************************)
(* Table type markers                                                      *)
(***************************************************************************)
TEMP_TABLE_SUFFIX == <<"_","T","E","M","P","_","T","B","L">>
SUBQUERY_TABLE_SUFFIX == <<"_","S","U","B","Q","R","Y","_","T","B","L">>

\* variant: the table name is looked up as written, without lower-casing
is_temp_table_case_sensitive(table_identifier, temp_tables) ==
    IF table_identifier = <<>> \/ temp_tables = {} THEN FALSE
    ELSE LET table_name == table_identifier
             last == IF contains(table_name, ".")
                     THEN LET ps == split(table_name, ".") IN ps[Len(ps)]
                     ELSE table_name
         IN  last \in temp_tables

\* is_temp_table(table_identifier, temp_tables)
is_temp_table(table_identifier, temp_tables) ==
    IF table_identifier = <<>> \/ temp_tables = {} THEN FALSE
    ELSE LET table_name == lower(table_identifier)
             last == IF contains(table_name, ".")
                     THEN LET ps == split(table_name, ".") IN ps[Len(ps)]
                     ELSE table_name
         IN  last \in temp_tables

(***************************************************************************)
(* trace_lineage_through_subqueries                                        *)
(***************************************************************************)
is_edge_item(data) == "source" \in DOMAIN data /\ "target" \in DOMAIN data

\* edges: the items carrying both "source" and "target", in input order
edges_of(cyto) == SelectSeq(cyto, is_edge_item)

\* nodes_dict: id -> data of the last non-edge item with that id
node_ids(cyto) ==
    {get(cyto[k], "id", <<>>) : k \in {j \in 1..Len(cyto) : ~is_edge_item(cyto[j])}}

nodes_dict(cyto) ==
    [n \in node_ids(cyto) |->
        LET k == CHOOSE j \in 1..Len(cyto) :
                    /\ ~is_edge_item(cyto[j])
                    /\ get(cyto[j], "id", <<>>) = n
                    /\ \A h \in (j+1)..Len(cyto) :
                          is_edge_item(cyto[h]) \/ get(cyto[h], "id", <<>>) # n
        IN  cyto[k]]

\* subquery_nodes: ids of the non-edge items whose type is SubQuery
subquery_nodes_of(cyto) ==
    {get(cyto[k], "id", <<>>) :
        k \in {j \in 1..Len(cyto) :
                 ~is_edge_item(cyto[j]) /\ get(cyto[j], "type", "") = "SubQuery"}}

\* an edge enters the adjacency maps only when both ends are non-empty
is_linked(edge) == edge.source # <<>> /\ edge.target # <<>>

RECURSIVE targets_from(_, _)
targets_from(edges, node) ==
    IF edges = <<>> THEN <<>>
    ELSE (IF is_linked(Head(edges)) /\ Head(edges).source = node
          THEN <<Head(edges).target>> ELSE <<>>)
         \o targets_from(Tail(edges), node)

RECURSIVE sources_into(_, _)
sources_into(edges, node) ==
    IF edges = <<>> THEN <<>>
    ELSE (IF is_linked(Head(edges)) /\ Head(edges).target = node
          THEN <<Head(edges).source>> ELSE <<>>)
         \o sources_into(Tail(edges), node)

\* outgoing_edges.get(node, []) and incoming_edges.get(node, [])
outgoing_edges(edges, node) == targets_from(edges, node)
incoming_edges(edges, node) == sources_into(edges, node)

\* the for-loop over the neighbours of one dequeued node
RECURSIVE scan_neighbors(_, _, _, _, _, _)
scan_neighbors(nbrs, k, distance, target, visited, queue) ==
    IF k > Len(nbrs)
    THEN [found |-> FALSE, result |-> FALSE, visited |-> visited, queue |-> queue]
    ELSE IF nbrs[k] = target
    THEN [found |-> TRUE, result |-> (distance + 1) > 1,
          visited |-> visited, queue |-> queue]
    ELSE IF nbrs[k] \notin visited
    THEN scan_neighbors(nbrs, k+1, distance, target,
                        visited \cup {nbrs[k]},
                        Append(queue, <<nbrs[k], distance + 1>>))
    ELSE scan_neighbors(nbrs, k+1, distance, target, visited, queue)

\* the while-loop over the queue
RECURSIVE bfs_loop(_, _, _, _)
bfs_loop(edges, queue, visited, target) ==
    IF queue = <<>> THEN FALSE
    ELSE LET node     == Head(queue)[1]
             distance == Head(queue)[2]
             r == scan_neighbors(outgoing_edges(edges, node), 1, distance,
                                 target, visited, Tail(queue))
         IN  IF r.found THEN r.result
             ELSE bfs_loop(edges, r.queue, r.visited, target)

has_intermediate_path(edges, source, target) ==
    IF source = target THEN FALSE
    ELSE bfs_loop(edges, <<<<source, 0>>>>, {source}, target)

\* visited.add(column_id) on the call's own copy of visited
visited_add_nothing(visited, column_id) == visited

visited_add(visited, column_id) == visited \cup {column_id}

is_subquery_column(column_id, subquery_nodes) ==
    IF column_id = <<>> \/ ~contains(column_id, ".") THEN FALSE
    ELSE split(column_id, ".")[1] \in subquery_nodes

is_temp_table_column(column_id, temp_tables) ==
    IF column_id = <<>> \/ ~contains(column_id, ".") THEN FALSE
    ELSE is_temp_table(split(column_id, ".")[1], temp_tables)

is_real_table_column(column_id, nodes, subquery_nodes, temp_tables) ==
    IF column_id = <<>> THEN FALSE
    ELSE IF is_subquery_column(column_id, subquery_nodes) THEN FALSE
    ELSE IF is_temp_table_column(column_id, temp_tables) THEN FALSE
    ELSE LET column_data == IF column_id \in DOMAIN nodes
                            THEN nodes[column_id] ELSE [id |-> column_id]
             parent_candidates == get(column_data, "parent_candidates", <<>>)
         IN  IF \E k \in 1..Len(parent_candidates) :
                    /\ get(parent_candidates[k], "type", "") = "Table"
                    /\ ~is_temp_table(get(parent_candidates[k], "name", <<>>),
                                      temp_tables)
             THEN TRUE
             ELSE IF contains(column_id, ".")
             THEN ~is_temp_table(split(column_id, ".")[1], temp_tables)
             ELSE FALSE

RECURSIVE trace_through_temp_tables(_, _, _, _, _, _)
RECURSIVE trace_temp_sources(_, _, _, _, _, _)
\* the loop over incoming_edges.get(start_column_id, [])
trace_temp_sources(srcs, visited, edges, nodes, subquery_nodes, temp_tables) ==
    IF srcs = <<>> THEN <<>>
    ELSE trace_through_temp_tables(Head(srcs), visited, edges, nodes,
                                   subquery_nodes, temp_tables)
         \o trace_temp_sources(Tail(srcs), visited, edges, nodes,
                               subquery_nodes, temp_tables)

trace_through_temp_tables(start_column_id, visited, edges, nodes, subquery_nodes, temp_tables) ==
    IF start_column_id \in visited THEN <<>>
    ELSE IF is_real_table_column(start_column_id, nodes, subquery_nodes, temp_tables)
    THEN <<start_column_id>>
    ELSE trace_temp_sources(incoming_edges(edges, start_column_id),
                            visited_add(visited, start_column_id),
                            edges, nodes, subquery_nodes, temp_tables)

RECURSIVE trace_to_real_source(_, _, _, _, _, _)
RECURSIVE trace_real_sources(_, _, _, _, _, _)
RECURSIVE trace_real_sources_shared_visited(_, _, _, _, _, _)
\* the loop, were the later sources traced with the set that already holds
\* the sources traced before them
trace_real_sources_shared_visited(srcs, visited, edges, nodes, subquery_nodes, temp_tables) ==
    IF srcs = <<>> THEN <<>>
    ELSE LET source_id == Head(srcs)
             here ==
               IF is_subquery_column(source_id, subquery_nodes)
               THEN trace_to_real_source(source_id, visited, edges, nodes,
                                         subquery_nodes, temp_tables)
               ELSE IF is_real_table_column(source_id, nodes, subquery_nodes,
                                            temp_tables)
               THEN <<source_id>>
               ELSE IF is_temp_table_column(source_id, temp_tables)
               THEN trace_through_temp_tables(source_id, visited, edges, nodes,
                                              subquery_nodes, temp_tables)
               ELSE <<>>
         IN  here \o trace_real_sources_shared_visited(
                         Tail(srcs), visited \cup {source_id}, edges, nodes,
                         subquery_nodes, temp_tables)

\* the loop over incoming_edges.get(subquery_column_id, [])
trace_real_sources(srcs, visited, edges, nodes, subquery_nodes, temp_tables) ==
    IF srcs = <<>> THEN <<>>
    ELSE LET source_id == Head(srcs)
             here ==
               IF is_subquery_column(source_id, subquery_nodes)
               THEN trace_to_real_source(source_id, visited, edges, nodes,
                                         subquery_nodes, temp_tables)
               ELSE IF is_real_table_column(source_id, nodes, subquery_nodes,
                                            temp_tables)
               THEN <<source_id>>
               ELSE IF is_temp_table_column(source_id, temp_tables)
               THEN trace_through_temp_tables(source_id, visited, edges, nodes,
                                              subquery_nodes, temp_tables)
               ELSE <<>>
         IN  here \o trace_real_sources(Tail(srcs), visited, edges, nodes,
                                        subquery_nodes, temp_tables)

trace_to_real_source(subquery_column_id, visited, edges, nodes, subquery_nodes, temp_tables) ==
    IF subquery_column_id \in visited THEN <<>>
    ELSE trace_real_sources(incoming_edges(edges, subquery_column_id),
                            visited_add(visited, subquery_column_id),
                            edges, nodes, subquery_nodes, temp_tables)

\* first loop: keep the column-to-column edges without an intermediate path
RECURSIVE filter_direct_edges(_, _, _)
filter_direct_edges(edges, k, paths) ==
    IF k > Len(edges) THEN paths
    ELSE LET source_id == edges[k].source
             target_id == edges[k].target
         IN  IF /\ source_id # <<>> /\ target_id # <<>>
                /\ contains(source_id, ".") /\ contains(target_id, ".")
             THEN IF has_intermediate_path(edges, source_id, target_id)
                  THEN filter_direct_edges(edges, k+1, paths)
                  ELSE filter_direct_edges(edges, k+1,
                         Append(paths, [source |-> source_id, target |-> target_id]))
             ELSE filter_direct_edges(edges, k+1, paths)

\* the loop over the traced real sources of one subquery column
RECURSIVE add_traced_sources(_, _, _, _)
add_traced_sources(real_sources, target_id, edges, paths) ==
    IF real_sources = <<>> THEN paths
    ELSE add_traced_sources(Tail(real_sources), target_id, edges,
            IF ~has_intermediate_path(edges, Head(real_sources), target_id)
            THEN Append(paths, [source |-> Head(real_sources), target |-> target_id])
            ELSE paths)

\* second loop: subquery column -> final table column edges
RECURSIVE trace_subquery_edges(_, _, _, _, _, _, _)
trace_subquery_edges(edges, k, processed, paths, nodes, subquery_nodes, temp_tables) ==
    IF k > Len(edges) THEN paths
    ELSE LET source_id == edges[k].source
             target_id == edges[k].target
         IN  IF /\ is_subquery_column(source_id, subquery_nodes)
                /\ ~is_subquery_column(target_id, subquery_nodes)
                /\ source_id \notin processed
             THEN IF in_list([source |-> source_id, target |-> target_id], paths)
                  THEN trace_subquery_edges(edges, k+1, processed \cup {source_id},
                           paths, nodes, subquery_nodes, temp_tables)
                  ELSE trace_subquery_edges(edges, k+1, processed \cup {source_id},
                           add_traced_sources(
                               trace_to_real_source(source_id, {}, edges, nodes,
                                                    subquery_nodes, temp_tables),
                               target_id, edges, paths),
                           nodes, subquery_nodes, temp_tables)
             ELSE trace_subquery_edges(edges, k+1, processed, paths,
                                       nodes, subquery_nodes, temp_tables)

\* returns (lineage_paths, subquery_nodes)
trace_lineage_through_subqueries(cyto, temp_tables) ==
    LET edges == edges_of(cyto)
        nodes == nodes_dict(cyto)
        subquery_nodes == subquery_nodes_of(cyto)
        direct == filter_direct_edges(edges, 1, <<>>)
        paths == IF subquery_nodes # {}
                 THEN trace_subquery_edges(edges, 1, {}, direct, nodes,
                                           subquery_nodes, temp_tables)
                 ELSE direct
    IN  [lineage_paths |-> paths, subquery_nodes |-> subquery_nodes]

(***************************************************************************)
(* trace_lineage_through_subqueries of the tagging variant                 *)
(* (lineage_sql_with_tags).  The graph is read into nodes_dict, edges,     *)
(* subquery_nodes and the adjacency maps by the same statements as in      *)
(* lineage_sql_with_database, and the nested functions is_subquery_column, *)
(* is_temp_table_column, is_real_table_column, trace_through_temp_tables   *)
(* and trace_to_real_source have the same text in both files.              *)
(***************************************************************************)
tags_trace_to_real_source(subquery_column_id, edges, nodes, subquery_nodes, temp_tables) ==
    trace_to_real_source(subquery_column_id, {}, edges, nodes, subquery_nodes,
                         temp_tables)

\* variant: the pair is appended with its two ends exchanged
tags_traced_paths_reversed(real_sources, target_id) ==
    [k \in 1..Len(real_sources) |->
        [source |-> target_id, target |-> real_sources[k]]]

\* the pairs (real source, target_id) of one subquery column
tags_traced_paths(real_sources, target_id) ==
    [k \in 1..Len(real_sources) |->
        [source |-> real_sources[k], target |-> target_id]]

\* first loop: subquery column -> final table column edges, each subquery
\* column once
RECURSIVE tags_trace_subquery_edges(_, _, _, _, _, _, _)
tags_trace_subquery_edges(edges, k, processed, paths, nodes, subquery_nodes, temp_tables) ==
    IF k > Len(edges) THEN paths
    ELSE LET source_id == edges[k].source
             target_id == edges[k].target
         IN  IF /\ is_subquery_column(source_id, subquery_nodes)
                /\ ~is_subquery_column(target_id, subquery_nodes)
                /\ source_id \notin processed
             THEN tags_trace_subquery_edges(edges, k+1, processed \cup {source_id},
                      paths \o tags_traced_paths(
                                  tags_trace_to_real_source(source_id, edges, nodes,
                                      subquery_nodes, temp_tables),
                                  target_id),
                      nodes, subquery_nodes, temp_tables)
             ELSE tags_trace_subquery_edges(edges, k+1, processed, paths,
                                            nodes, subquery_nodes, temp_tables)

\* second loop: every column-to-column edge is kept
RECURSIVE tags_direct_edges(_, _, _)
tags_direct_edges(edges, k, paths) ==
    IF k > Len(edges) THEN paths
    ELSE LET source_id == edges[k].source
             target_id == edges[k].target
         IN  IF /\ source_id # <<>> /\ target_id # <<>>
                /\ contains(source_id, ".") /\ contains(target_id, ".")
             THEN tags_direct_edges(edges, k+1,
                      Append(paths, [source |-> source_id, target |-> target_id]))
             ELSE tags_direct_edges(edges, k+1, paths)

\* returns (lineage_paths, subquery_nodes)
tags_trace_lineage_through_subqueries(cyto, temp_tables) ==
    LET edges == edges_of(cyto)
        nodes == nodes_dict(cyto)
        subquery_nodes == subquery_nodes_of(cyto)
        traced == IF subquery_nodes # {}
                  THEN tags_trace_subquery_edges(edges, 1, {}, <<>>, nodes,
                                                 subquery_nodes, temp_tables)
                  ELSE <<>>
    IN  [lineage_paths |-> tags_direct_edges(edges, 1, traced),
         subquery_nodes |-> subquery_nodes]

(***************************************************************************)
(* Statement classifier                                                    *)
(***************************************************************************)
\* Optional values: Python None against a str
None == [is_none |-> TRUE, value |-> <<>>]
Some(v) == [is_none |-> FALSE, value |-> v]

\* truthiness of an optional str
truthy(o) == ~o.is_none /\ o.value # <<>>

\* sql_statement.strip().upper().split() on the words of a statement
upper_words(sql_statement) == [k \in 1..Len(sql_statement) |-> upper(sql_statement[k])]

extract_use_database(sql_statement) ==
    IF sql_statement = <<>> THEN None
    ELSE LET words == upper_words(sql_statement)
         IN  IF Len(words) >= 2 /\ words[1] = <<"U", "S", "E">>
             THEN Some(strip(rstrip(words[2], {";"}), QuoteChars))
             ELSE None

SKIP_KEYWORDS ==
    { <<<<"A", "L", "T", "E", "R">>>>, <<<<"D", "R", "O", "P">>>>, <<<<"G", "R", "A", "N", "T">>>>, <<<<"R", "E", "V", "O", "K", "E">>>>, <<<<"S", "E", "T">>>>,
      <<<<"S", "H", "O", "W">>>>, <<<<"D", "E", "S", "C", "R", "I", "B", "E">>>>, <<<<"D", "E", "S", "C">>>>, <<<<"E", "X", "P", "L", "A", "I", "N">>>>,
      <<<<"A", "N", "A", "L", "Y", "Z", "E">>>>, <<<<"T", "R", "U", "N", "C", "A", "T", "E">>>>, <<<<"C", "O", "M", "M", "E", "N", "T">>>>, <<<<"R", "E", "F", "R", "E", "S", "H">>>>,
      <<<<"M", "S", "C", "K">>>>, <<<<"C", "A", "C", "H", "E">>>>, <<<<"U", "N", "C", "A", "C", "H", "E">>>>,
      <<<<"C", "R", "E", "A", "T", "E">>, <<"D", "A", "T", "A", "B", "A", "S", "E">>>>, <<<<"C", "R", "E", "A", "T", "E">>, <<"S", "C", "H", "E", "M", "A">>>>,
      <<<<"C", "R", "E", "A", "T", "E">>, <<"U", "S", "E", "R">>>>, <<<<"C", "R", "E", "A", "T", "E">>, <<"R", "O", "L", "E">>>>,
      <<<<"C", "R", "E", "A", "T", "E">>, <<"I", "N", "D", "E", "X">>>>, <<<<"C", "R", "E", "A", "T", "E">>, <<"F", "U", "N", "C", "T", "I", "O", "N">>>>,
      <<<<"C", "R", "E", "A", "T", "E">>, <<"P", "R", "O", "C", "E", "D", "U", "R", "E">>>> }

\* returns is_ddl (the statement type is only printed)
is_ddl_or_control_statement(sql_statement) ==
    LET words == upper_words(sql_statement)
    IN  IF words = <<>> THEN FALSE
        ELSE IF words[1] = <<"U", "S", "E">> THEN FALSE
        ELSE IF <<words[1]>> \in SKIP_KEYWORDS THEN TRUE
        ELSE IF Len(words) >= 2 /\ <<words[1], words[2]>> \in SKIP_KEYWORDS THEN TRUE
        ELSE IF /\ words[1] = <<"C", "R", "E", "A", "T", "E">>
                /\ Len(words) >= 2
                /\ \/ words[2] \in {<<"T", "A", "B", "L", "E">>, <<"V", "I", "E", "W">>}
                   \/ /\ words[2] \in {<<"T", "E", "M", "P", "O", "R", "A", "R", "Y">>, <<"T", "E", "M", "P">>}
                      /\ Len(words) >= 3
                      /\ words[3] \in {<<"T", "A", "B", "L", "E">>, <<"V", "I", "E", "W">>}
        THEN ~(in_list(<<"A", "S">>, words) /\ in_list(<<"S", "E", "L", "E", "C", "T">>, words))
        ELSE FALSE

\* s.startswith(prefix)
startswith(s, prefix) == Len(s) >= Len(prefix) /\ SubSeq(s, 1, Len(prefix)) = prefix

\* ^\s*FROM\s*(?:\(|\s) on the upper-cased statement
is_from_statement(sql_statement) ==
    LET words == upper_words(sql_statement)
    IN  IF words = <<>> THEN FALSE
        ELSE \/ words[1] = <<"F", "R", "O", "M">> /\ Len(words) >= 2
             \/ startswith(words[1], <<"F", "R", "O", "M", "(">>)

(***************************************************************************)
(* The statements of the model: text and what the parser does with it     *)
(***************************************************************************)
NoParser == [outcome |-> "empty", graph |-> <<>>]

table_item(t) == [id |-> t, type |-> "Table"]
subquery_item(t) == [id |-> t, type |-> "SubQuery"]
column_item(c, kind, t) ==
    [id |-> c, type |-> "Column",
     parent_candidates |-> <<[type |-> kind, name |-> t]>>]
edge_item(s, t) == [id |-> s \o <<"-", ">">> \o t, source |-> s, target |-> t]

\* use a;
ST_use_a == [words |-> <<<<"u", "s", "e">>, <<"a", ";">>>>, parser |-> NoParser]

\* USE `B`
ST_use_B == [words |-> <<<<"U", "S", "E">>, <<Backtick, "B", Backtick>>>>, parser |-> NoParser]

\* USE ;   (the parser finds no lineage in it)
ST_use_semi == [words |-> <<<<"U", "S", "E">>, <<";">>>>, parser |-> NoParser]

\* CREATE TEMP TABLE tmp AS SELECT x FROM src
ST_ctas ==
    [words |-> <<<<"C", "R", "E", "A", "T", "E">>, <<"T", "E", "M", "P">>, <<"T", "A", "B", "L", "E">>, <<"t", "m", "p">>, <<"A", "S">>, <<"S", "E", "L", "E", "C", "T">>, <<"x">>,
                 <<"F", "R", "O", "M">>, <<"s", "r", "c">>>>,
     parser |-> [outcome |-> "graph",
                 graph |-> <<table_item(<<"s", "r", "c">>), column_item(<<"s", "r", "c", ".", "x">>, "Table", <<"s", "r", "c">>),
                             table_item(<<"t", "m", "p">>), column_item(<<"t", "m", "p", ".", "x">>, "Table", <<"t", "m", "p">>),
                             edge_item(<<"s", "r", "c", ".", "x">>, <<"t", "m", "p", ".", "x">>)>>]]

\* INSERT INTO dst SELECT x FROM tmp
ST_insert ==
    [words |-> <<<<"I", "N", "S", "E", "R", "T">>, <<"I", "N", "T", "O">>, <<"d", "s", "t">>, <<"S", "E", "L", "E", "C", "T">>, <<"x">>, <<"F", "R", "O", "M">>, <<"t", "m", "p">>>>,
     parser |-> [outcome |-> "graph",
                 graph |-> <<table_item(<<"t", "m", "p">>), column_item(<<"t", "m", "p", ".", "x">>, "Table", <<"t", "m", "p">>),
                             table_item(<<"d", "s", "t">>), column_item(<<"d", "s", "t", ".", "x">>, "Table", <<"d", "s", "t">>),
                             edge_item(<<"t", "m", "p", ".", "x">>, <<"d", "s", "t", ".", "x">>)>>]]

\* INSERT INTO dst SELECT x FROM (SELECT x FROM src) a
ST_insert_subquery ==
    [words |-> <<<<"I", "N", "S", "E", "R", "T">>, <<"I", "N", "T", "O">>, <<"d", "s", "t">>, <<"S", "E", "L", "E", "C", "T">>, <<"x">>, <<"F", "R", "O", "M">>,
                 <<"(", "S", "E", "L", "E", "C", "T">>, <<"x">>, <<"F", "R", "O", "M">>, <<"s", "r", "c", ")">>, <<"a">>>>,
     parser |-> [outcome |-> "graph",
                 graph |-> <<table_item(<<"s", "r", "c">>), column_item(<<"s", "r", "c", ".", "x">>, "Table", <<"s", "r", "c">>),
                             subquery_item(<<"a">>), column_item(<<"a", ".", "x">>, "SubQuery", <<"a">>),
                             table_item(<<"d", "s", "t">>), column_item(<<"d", "s", "t", ".", "x">>, "Table", <<"d", "s", "t">>),
                             edge_item(<<"s", "r", "c", ".", "x">>, <<"a", ".", "x">>),
                             edge_item(<<"a", ".", "x">>, <<"d", "s", "t", ".", "x">>)>>]]

\* FROM src INSERT INTO dst SELECT x   (LineageRunner raises)
ST_from_raises ==
    [words |-> <<<<"F", "R", "O", "M">>, <<"s", "r", "c">>, <<"I", "N", "S", "E", "R", "T">>, <<"I", "N", "T", "O">>, <<"d", "s", "t">>, <<"S", "E", "L", "E", "C", "T">>, <<"x">>>>,
     parser |-> [outcome |-> "ctor_raises", graph |-> <<>>]]

\* MERGE INTO dst   (to_cytoscape raises)
ST_merge_raises ==
    [words |-> <<<<"M", "E", "R", "G", "E">>, <<"I", "N", "T", "O">>, <<"d", "s", "t">>>>,
     parser |-> [outcome |-> "cytoscape_raises", graph |-> <<>>]]

\* SELECT 1   (to_cytoscape returns an empty list)
ST_select_empty ==
    [words |-> <<<<"S", "E", "L", "E", "C", "T">>, <<"1">>>>, parser |-> [outcome |-> "empty", graph |-> <<>>]]

\* SELECT 2   (to_cytoscape returns something that is not a list)
ST_select_not_a_list ==
    [words |-> <<<<"S", "E", "L", "E", "C", "T">>, <<"2">>>>, parser |-> [outcome |-> "not_a_list", graph |-> <<>>]]

\* DROP TABLE tmp
ST_drop == [words |-> <<<<"D", "R", "O", "P">>, <<"T", "A", "B", "L", "E">>, <<"t", "m", "p">>>>, parser |-> NoParser]

\* CREATE TABLE tmp AS (SELECT x FROM src)
ST_ctas_paren ==
    [words |-> <<<<"C", "R", "E", "A", "T", "E">>, <<"T", "A", "B", "L", "E">>, <<"t", "m", "p">>, <<"A", "S">>, <<"(", "S", "E", "L", "E", "C", "T">>, <<"x">>,
                 <<"F", "R", "O", "M">>, <<"s", "r", "c", ")">>>>,
     parser |-> [outcome |-> "graph",
                 graph |-> <<table_item(<<"s", "r", "c">>), column_item(<<"s", "r", "c", ".", "x">>, "Table", <<"s", "r", "c">>),
                             table_item(<<"t", "m", "p">>), column_item(<<"t", "m", "p", ".", "x">>, "Table", <<"t", "m", "p">>),
                             edge_item(<<"s", "r", "c", ".", "x">>, <<"t", "m", "p", ".", "x">>)>>]]

\* CREATE TABLE `db`.`Tmp` (x INT)
ST_create_quoted ==
    [words |-> <<<<"C", "R", "E", "A", "T", "E">>, <<"T", "A", "B", "L", "E">>, <<Backtick, "d", "b", Backtick, ".", Backtick, "T", "m", "p", Backtick>>, <<"(", "x">>, <<"I", "N", "T", ")">>>>,
     parser |-> NoParser]

\* A script text is the sequence of the names of its statements
Catalogue ==
    [use_a |-> ST_use_a, use_B |-> ST_use_B, use_semi |-> ST_use_semi,
     ctas |-> ST_ctas, ctas_paren |-> ST_ctas_paren, insert |-> ST_insert,
     insert_subquery |-> ST_insert_subquery,
     from_raises |-> ST_from_raises, merge_raises |-> ST_merge_raises,
     select_empty |-> ST_select_empty,
     select_not_a_list |-> ST_select_not_a_list, drop |-> ST_drop,
     create_quoted |-> ST_create_quoted]

Statements == DOMAIN Catalogue

\* the words of a statement and the parser's behaviour on it
words_of(st) == Catalogue[st].words
parser_of(st) == Catalogue[st].parser

(***************************************************************************)
(* Ephemeral-entity detector                                               *)
(***************************************************************************)
\* [^\s\(\;]+ : the leading characters of a word up to '(' or ';'
RECURSIVE name_prefix(_)
name_prefix(w) ==
    IF w = <<>> \/ w[1] \in {"(", ";"} THEN <<>>
    ELSE <<w[1]>> \o name_prefix(Tail(w))

word_at(words, k) == IF k <= Len(words) THEN words[k] ELSE <<>>

\* the table name the CREATE pattern captures when its CREATE keyword is the
\* k-th word of the statement (empty: no match).  The pattern is applied to
\* whole words: the whitespace layout of the text is not modelled.
create_match(stmt, k) ==
    LET U(j) == upper(word_at(stmt, j))
        k1 == IF U(k+1) \in {<<"L", "O", "C", "A", "L">>, <<"G", "L", "O", "B", "A", "L">>} THEN k+2 ELSE k+1
        k2 == IF U(k1) \in {<<"T", "E", "M", "P", "O", "R", "A", "R", "Y">>, <<"T", "E", "M", "P">>} THEN k1+1 ELSE k1
        k3 == k2 + 1
        k4 == IF U(k3) = <<"I", "F">> /\ U(k3+1) = <<"N", "O", "T">> /\ U(k3+2) = <<"E", "X", "I", "S", "T", "S">>
                 /\ name_prefix(word_at(stmt, k3+3)) # <<>>
              THEN k3+3 ELSE k3
    IN  IF U(k) = <<"C", "R", "E", "A", "T", "E">> /\ U(k2) \in {<<"T", "A", "B", "L", "E">>, <<"V", "I", "E", "W">>}
        THEN name_prefix(word_at(stmt, k4))
        ELSE <<>>

clean_table_name(table_name) ==
    LET cleaned == lower(strip(table_name, QuoteChars))
    IN  IF contains(cleaned, ".")
        THEN LET ps == split(cleaned, ".") IN ps[Len(ps)]
        ELSE cleaned

\* sql_script is the text as the sequence of its statements; the pattern is
\* searched in each of them
extract_temp_tables_from_script(sql_script) ==
    UNION { LET w == words_of(sql_script[n])
            IN  {clean_table_name(create_match(w, k)) :
                    k \in {j \in 1..Len(w) : create_match(w, j) # <<>>}}
            : n \in 1..Len(sql_script) }

\* split(sql_script): the statements in order, blank ones dropped
split_sql_statements(sql_script) ==
    SelectSeq(sql_script, LAMBDA st : words_of(st) # <<>>)

(***************************************************************************)
(* Identifier normalizer                                                   *)
(***************************************************************************)
add_table_type_marker(table_name, is_temp, is_subquery_table) ==
    IF table_name = <<>> THEN table_name
    ELSE IF is_subquery_table THEN table_name \o SUBQUERY_TABLE_SUFFIX
    ELSE IF is_temp THEN table_name \o TEMP_TABLE_SUFFIX
    ELSE table_name

\* hashlib.md5(etl_job.encode('utf-8')).hexdigest()[:8] for the job names
\* of the model (values computed with hashlib)
md5_hexdigest_8(etl_job) ==
    CASE etl_job = <<"D", "E", "M", "O", "_", "J", "O", "B">> -> <<"0", "7", "0", "b", "d", "4", "f", "e">>
      [] etl_job = <<"a", ".", "s", "q", "l">>    -> <<"3", "5", "9", "3", "4", "8", "2", "f">>
      [] etl_job = <<"b", ".", "s", "q", "l">>    -> <<"5", "3", "9", "2", "7", "f", "6", "a">>

Digits == <<"0","1","2","3","4","5","6","7","8","9">>

\* str(n) for n >= 0
RECURSIVE str_int(_)
str_int(n) ==
    IF n < 10 THEN <<Digits[n+1]>>
    ELSE str_int(n \div 10) \o <<Digits[(n % 10) + 1]>>

create_unique_subquery_table_name(subquery_alias, etl_job, sql_no) ==
    LET etl_hash == IF etl_job # <<>> THEN md5_hexdigest_8(etl_job) ELSE <<>>
        sql_no_str == str_int(sql_no)
    IN  subquery_alias \o <<"_">> \o etl_hash \o <<"_">> \o sql_no_str
            \o SUBQUERY_TABLE_SUFFIX

UnknownDb == <<"<", "u", "n", "k", "n", "o", "w", "n", ">">>
DefaultDb == <<"<", "d", "e", "f", "a", "u", "l", "t", ">">>
SUBQUERY_DB == <<"<", "S", "U", "B", "Q", "U", "E", "R", "Y", "_", "D", "B", ">">>
SCHEMA_TMP == <<"S", "C", "H", "E", "M", "A", "_", "T", "M", "P">>

\* variant: the default database is substituted before the ephemeral schema
resolve_database_default_first(database, is_temp, current_database) ==
    IF (database = <<>> \/ database = DefaultDb) /\ current_database # <<>>
    THEN current_database
    ELSE IF is_temp /\ (database = <<>> \/ database = DefaultDb)
    THEN SCHEMA_TMP
    ELSE database

\* the database an ephemeral or ordinary (non-subquery) table ends up with
resolve_database(database, is_temp, current_database) ==
    IF is_temp /\ (database = <<>> \/ database = DefaultDb)
    THEN SCHEMA_TMP
    ELSE IF (database = <<>> \/ database = DefaultDb) /\ current_database # <<>>
    THEN current_database
    ELSE database

\* variant: the first part is the database whatever it is
explicit_database_as_written(first_part) == first_part

\* the database of a 3-part id: its first part, unless that is one of the
\* parser's sentinels
explicit_database(first_part) ==
    IF first_part \notin {UnknownDb, DefaultDb} THEN first_part ELSE <<>>

\* variant: a subquery endpoint keeps the database its id carries
extract_database_table_column_keep_prefix(column_id, temp_tables, subquery_nodes, current_database, etl_job, sql_no) ==
    IF column_id = <<>> THEN [ok |-> FALSE]
    ELSE
    LET parts == split(column_id, ".")
        database == IF Len(parts) >= 3 THEN explicit_database(parts[1]) ELSE <<>>
        table == IF Len(parts) >= 3 THEN parts[2]
                 ELSE IF Len(parts) = 2 THEN parts[1] ELSE <<>>
        column == IF Len(parts) >= 3 THEN parts[3]
                  ELSE IF Len(parts) = 2 THEN parts[2] ELSE parts[1]
        is_temp == is_temp_table(table, temp_tables)
        is_subquery == table \in subquery_nodes
    IN  IF table # <<>>
        THEN IF is_subquery
             THEN [ok |-> TRUE,
                   database |-> IF database # <<>> THEN database ELSE SUBQUERY_DB,
                   table |-> create_unique_subquery_table_name(table, etl_job, sql_no),
                   column |-> column]
             ELSE [ok |-> TRUE,
                   database |-> resolve_database(database, is_temp, current_database),
                   table |-> add_table_type_marker(table, is_temp, FALSE),
                   column |-> column]
        ELSE [ok |-> TRUE, database |-> database, table |-> table, column |-> column]

\* returns the dict, or None for an empty id (ok = FALSE)
extract_database_table_column(column_id, temp_tables, subquery_nodes, current_database, etl_job, sql_no) ==
    IF column_id = <<>> THEN [ok |-> FALSE]
    ELSE
    LET parts == split(column_id, ".")
        database == IF Len(parts) >= 3 THEN explicit_database(parts[1]) ELSE <<>>
        table == IF Len(parts) >= 3 THEN parts[2]
                 ELSE IF Len(parts) = 2 THEN parts[1] ELSE <<>>
        column == IF Len(parts) >= 3 THEN parts[3]
                  ELSE IF Len(parts) = 2 THEN parts[2] ELSE parts[1]
        is_temp == is_temp_table(table, temp_tables)
        is_subquery == table \in subquery_nodes
    IN  IF table # <<>>
        THEN IF is_subquery
             THEN [ok |-> TRUE, database |-> SUBQUERY_DB,
                   table |-> create_unique_subquery_table_name(table, etl_job, sql_no),
                   column |-> column]
             ELSE [ok |-> TRUE,
                   database |-> resolve_database(database, is_temp, current_database),
                   table |-> add_table_type_marker(table, is_temp, FALSE),
                   column |-> column]
        ELSE [ok |-> TRUE, database |-> database, table |-> table, column |-> column]

(***************************************************************************)
(* Identifier normalizer of the tagging variant (lineage_sql_with_tags)    *)
(***************************************************************************)
tags_is_temp_table(table_identifier, temp_tables) ==
    IF table_identifier = <<>> \/ temp_tables = {} THEN FALSE
    ELSE LET table_name == lower(table_identifier)
             last == IF contains(table_name, ".")
                     THEN LET ps == split(table_name, ".") IN ps[Len(ps)]
                     ELSE table_name
         IN  last \in temp_tables

\* variant: the ephemeral tag is tried before the subquery tag
tags_add_table_type_marker_temp_first(table_name, is_temp, is_subquery_table) ==
    IF table_name = <<>> THEN table_name
    ELSE IF is_temp THEN table_name \o TEMP_TABLE_SUFFIX
    ELSE IF is_subquery_table THEN table_name \o SUBQUERY_TABLE_SUFFIX
    ELSE table_name

tags_add_table_type_marker(table_name, is_temp, is_subquery_table) ==
    IF table_name = <<>> THEN table_name
    ELSE IF is_subquery_table THEN table_name \o SUBQUERY_TABLE_SUFFIX
    ELSE IF is_temp THEN table_name \o TEMP_TABLE_SUFFIX
    ELSE table_name

\* returns the dict, or None for an empty id (ok = FALSE)
tags_extract_database_table_column(column_id, temp_tables, subquery_nodes) ==
    IF column_id = <<>> THEN [ok |-> FALSE]
    ELSE
    LET parts == split(column_id, ".")
        database == IF Len(parts) >= 3
                    THEN (IF parts[1] # UnknownDb THEN parts[1] ELSE <<>>)
                    ELSE <<>>
        table == IF Len(parts) >= 3 THEN parts[2]
                 ELSE IF Len(parts) = 2 THEN parts[1] ELSE <<>>
        column == IF Len(parts) >= 3 THEN parts[3]
                  ELSE IF Len(parts) = 2 THEN parts[2] ELSE parts[1]
    IN  [ok |-> TRUE,
         database |-> database,
         table |-> IF table # <<>>
                   THEN tags_add_table_type_marker(table,
                            tags_is_temp_table(table, temp_tables),
                            table \in subquery_nodes)
                   ELSE table,
         column |-> column]

\* the loop of process_cytoscape_lineage over lineage_paths
RECURSIVE tags_records_of_paths(_, _, _, _, _, _, _)
tags_records_of_paths(paths, temp_tables, subquery_nodes, etl_system, etl_job, sql_path, sql_no) ==
    IF paths = <<>> THEN <<>>
    ELSE
    LET source_info == tags_extract_database_table_column(Head(paths).source,
                           temp_tables, subquery_nodes)
        target_info == tags_extract_database_table_column(Head(paths).target,
                           temp_tables, subquery_nodes)
        rest == tags_records_of_paths(Tail(paths), temp_tables, subquery_nodes,
                                      etl_system, etl_job, sql_path, sql_no)
    IN  IF ~source_info.ok \/ source_info.table = <<>> THEN rest
        ELSE IF ~target_info.ok \/ target_info.table = <<>> THEN rest
        ELSE <<[etl_system |-> etl_system,
                etl_job |-> etl_job,
                sql_path |-> sql_path,
                sql_no |-> sql_no,
                source_database |-> source_info.database,
                source_table |-> source_info.table,
                source_column |-> source_info.column,
                target_database |-> target_info.database,
                target_table |-> target_info.table,
                target_column |-> target_info.column]>> \o rest

(***************************************************************************)
(* Per-statement processing                                                *)
(***************************************************************************)
\* variant: a pair is recorded also when an end has no table
RECURSIVE records_of_paths_keep_empty(_, _, _, _, _, _, _, _)
records_of_paths_keep_empty(paths, temp_tables, subquery_nodes, current_database, etl_system, etl_job, sql_path, sql_no) ==
    IF paths = <<>> THEN <<>>
    ELSE
    LET source_info == extract_database_table_column(Head(paths).source,
                           temp_tables, subquery_nodes, current_database,
                           etl_job, sql_no)
        target_info == extract_database_table_column(Head(paths).target,
                           temp_tables, subquery_nodes, current_database,
                           etl_job, sql_no)
        rest == records_of_paths_keep_empty(Tail(paths), temp_tables,
                                 subquery_nodes, current_database, etl_system,
                                 etl_job, sql_path, sql_no)
    IN  IF ~source_info.ok THEN rest
        ELSE IF ~target_info.ok THEN rest
        ELSE <<[etl_system |-> etl_system,
                etl_job |-> etl_job,
                sql_path |-> sql_path,
                sql_no |-> sql_no,
                source_database |-> source_info.database,
                source_table |-> source_info.table,
                source_column |-> source_info.column,
                target_database |-> target_info.database,
                target_table |-> target_info.table,
                target_column |-> target_info.column]>> \o rest

\* the loop over lineage_paths: one record per pair whose two ends have a table
RECURSIVE records_of_paths(_, _, _, _, _, _, _, _)
records_of_paths(paths, temp_tables, subquery_nodes, current_database, etl_system, etl_job, sql_path, sql_no) ==
    IF paths = <<>> THEN <<>>
    ELSE
    LET source_info == extract_database_table_column(Head(paths).source,
                           temp_tables, subquery_nodes, current_database,
                           etl_job, sql_no)
        target_info == extract_database_table_column(Head(paths).target,
                           temp_tables, subquery_nodes, current_database,
                           etl_job, sql_no)
        rest == records_of_paths(Tail(paths), temp_tables, subquery_nodes,
                                 current_database, etl_system, etl_job,
                                 sql_path, sql_no)
    IN  IF ~source_info.ok \/ source_info.table = <<>> THEN rest
        ELSE IF ~target_info.ok \/ target_info.table = <<>> THEN rest
        ELSE <<[etl_system |-> etl_system,
                etl_job |-> etl_job,
                sql_path |-> sql_path,
                sql_no |-> sql_no,
                source_database |-> source_info.database,
                source_table |-> source_info.table,
                source_column |-> source_info.column,
                target_database |-> target_info.database,
                target_table |-> target_info.table,
                target_column |-> target_info.column]>> \o rest

process_cytoscape_lineage(cyto, temp_tables, current_database, etl_system, etl_job, sql_path, sql_no) ==
    IF cyto = <<>> THEN <<>>
    ELSE LET r == trace_lineage_through_subqueries(cyto, temp_tables)
         IN  records_of_paths(r.lineage_paths, temp_tables, r.subquery_nodes,
                              current_database, etl_system, etl_job,
                              sql_path, sql_no)

\* variant: an exception of the LineageRunner constructor is not caught
parse_and_resolve_uncaught(st, temp_tables, current_database, etl_system, etl_job, sql_path, sql_no) ==
    IF parser_of(st).outcome = "graph" /\ parser_of(st).graph # <<>>
    THEN [raised |-> FALSE,
          lineage_records |->
              process_cytoscape_lineage(parser_of(st).graph, temp_tables,
                  current_database, etl_system, etl_job, sql_path, sql_no)]
    ELSE [raised |-> parser_of(st).outcome = "ctor_raises",
          lineage_records |-> <<>>]

\* What the external parser does with a statement is part of the statement:
\*   parser.outcome = "ctor_raises"       LineageRunner(...) raises
\*                    "cytoscape_raises"  runner.to_cytoscape raises
\*                    "empty"             to_cytoscape returns []
\*                    "not_a_list"        to_cytoscape returns a non-list
\*                    "graph"             to_cytoscape returns parser.graph
\* the try/except of process_single_sql around the parser
parse_and_resolve(st, temp_tables, current_database, etl_system, etl_job, sql_path, sql_no) ==
    IF parser_of(st).outcome = "graph" /\ parser_of(st).graph # <<>>
    THEN [raised |-> FALSE,
          lineage_records |->
              process_cytoscape_lineage(parser_of(st).graph, temp_tables,
                  current_database, etl_system, etl_job, sql_path, sql_no)]
    ELSE [raised |-> FALSE, lineage_records |-> <<>>]

\* for i, sql in enumerate(sql_statements): sql_no = i + 1
loop_sql_no(i) == i + 1

\* variant: the new records are put in front of the accumulated ones
extend_in_front(records, more) == more \o records

\* list.extend
extend(records, more) == records \o more

\* The classifier's verdicts on the statements of the model, computed once
\* with the operators above
use_database_of == [st \in Statements |-> extract_use_database(words_of(st))]
is_ddl_of == [st \in Statements |-> is_ddl_or_control_statement(words_of(st))]
is_from_of == [st \in Statements |-> is_from_statement(words_of(st))]

\* variant: a skipped DDL or control statement clears the default database
process_single_sql_skip_clears(st, temp_tables, current_database, etl_system, etl_job, sql_path, sql_no, db_type, provider) ==
    LET use_database == use_database_of[st]
        actual_db_type == IF is_from_of[st]
                          THEN "non-validating" ELSE db_type
        parsed == parse_and_resolve(st, temp_tables, current_database,
                                    etl_system, etl_job, sql_path, sql_no)
    IN  IF truthy(use_database)
        THEN [lineage_records |-> <<>>,
              new_current_database |-> use_database.value,
              parser_calls |-> <<>>, raised |-> FALSE]
        ELSE IF is_ddl_of[st]
        THEN [lineage_records |-> <<>>,
              new_current_database |-> <<>>,
              parser_calls |-> <<>>, raised |-> FALSE]
        ELSE [lineage_records |-> parsed.lineage_records,
              new_current_database |-> current_database,
              parser_calls |-> <<[sql_no |-> sql_no, dialect |-> actual_db_type,
                                  metadata_provider |-> provider]>>,
              raised |-> parsed.raised]

\* returns (lineage_records, new_current_database); parser_calls lists the
\* LineageRunner constructions made, raised tells an exception left the call
process_single_sql(st, temp_tables, current_database, etl_system, etl_job, sql_path, sql_no, db_type, provider) ==
    LET use_database == use_database_of[st]
        actual_db_type == IF is_from_of[st]
                          THEN "non-validating" ELSE db_type
        parsed == parse_and_resolve(st, temp_tables, current_database,
                                    etl_system, etl_job, sql_path, sql_no)
    IN  IF truthy(use_database)
        THEN [lineage_records |-> <<>>,
              new_current_database |-> use_database.value,
              parser_calls |-> <<>>, raised |-> FALSE]
        ELSE IF is_ddl_of[st]
        THEN [lineage_records |-> <<>>,
              new_current_database |-> current_database,
              parser_calls |-> <<>>, raised |-> FALSE]
        ELSE [lineage_records |-> parsed.lineage_records,
              new_current_database |-> current_database,
              parser_calls |-> <<[sql_no |-> sql_no, dialect |-> actual_db_type,
                                  metadata_provider |-> provider]>>,
              raised |-> parsed.raised]

(***************************************************************************)
(* Record emitter                                                          *)
(***************************************************************************)
\* str.replace("'", "''")
RECURSIVE escape_quotes(_)
escape_quotes(s) ==
    IF s = <<>> THEN <<>>
    ELSE (IF s[1] = "'" THEN <<"'", "'">> ELSE <<s[1]>>) \o escape_quotes(Tail(s))

format_value(value) ==
    IF value = <<>> THEN <<"N", "U", "L", "L">>
    ELSE <<"'">> \o escape_quotes(value) \o <<"'">>

insert_statement(record) ==
    [kind |-> "INSERT",
     values |-> <<format_value(record.etl_system),
                  format_value(record.etl_job),
                  format_value(record.sql_path),
                  str_int(record.sql_no),
                  format_value(record.source_database),
                  format_value(record.source_table),
                  format_value(record.source_column),
                  format_value(record.target_database),
                  format_value(record.target_table),
                  format_value(record.target_column)>>]

delete_statement(etl_system, etl_job) ==
    [kind |-> "DELETE", etl_system |-> etl_system, etl_job |-> etl_job]

\* variant: the DELETE is emitted whatever etl_system and etl_job are
generate_oracle_insert_statements_unguarded(lineage_records, etl_system, etl_job) ==
    <<[kind |-> "COMMENT", step |-> 1]>>
    \o <<delete_statement(etl_system, etl_job)>>
    \o <<[kind |-> "BLANK"], [kind |-> "COMMENT", step |-> 2]>>
    \o [k \in 1..Len(lineage_records) |-> insert_statement(lineage_records[k])]
    \o <<[kind |-> "BLANK"], [kind |-> "COMMENT", step |-> 3], [kind |-> "COMMIT"]>>

\* the lines of the returned text, before "\n".join
generate_oracle_insert_statements(lineage_records, etl_system, etl_job) ==
    <<[kind |-> "COMMENT", step |-> 1]>>
    \o (IF etl_system # <<>> /\ etl_job # <<>>
        THEN <<delete_statement(etl_system, etl_job)>> ELSE <<>>)
    \o <<[kind |-> "BLANK"], [kind |-> "COMMENT", step |-> 2]>>
    \o [k \in 1..Len(lineage_records) |-> insert_statement(lineage_records[k])]
    \o <<[kind |-> "BLANK"], [kind |-> "COMMENT", step |-> 3], [kind |-> "COMMIT"]>>

(***************************************************************************)
(* Entry point                                                             *)
(***************************************************************************)
\* A path is the sequence of its components (normalised, absolute).
dirname(path) == SubSeq(path, 1, Len(path) - 1)
basename(path) == IF path = <<>> THEN <<>> ELSE path[Len(path)]

\* the path as text
RECURSIVE path_str(_)
path_str(path) ==
    IF path = <<>> THEN <<>>
    ELSE <<"/">> \o Head(path) \o path_str(Tail(path))

\* length of the longest common prefix of two paths
RECURSIVE common_prefix_len(_, _)
common_prefix_len(p, q) ==
    IF p = <<>> \/ q = <<>> \/ Head(p) # Head(q) THEN 0
    ELSE 1 + common_prefix_len(Tail(p), Tail(q))

\* os.path.relpath(file_path, base_path).split(os.sep)
relpath_parts(file_path, base_path) ==
    LET c == common_prefix_len(file_path, base_path)
        rel == [k \in 1..(Len(base_path) - c) |-> <<".", ".">>]
                   \o SubSeq(file_path, c + 1, Len(file_path))
    IN  IF rel = <<>> THEN <<<<".">>>> ELSE rel

parse_etl_info_from_path(file_path, base_path) ==
    LET path_parts == relpath_parts(file_path, base_path)
    IN  IF Len(path_parts) >= 2
        THEN [etl_system |-> path_parts[1],
              etl_job |-> basename(file_path),
              appname |-> IF contains(path_parts[1], "_")
                          THEN split(path_parts[1], "_")[1]
                          ELSE path_parts[1]]
        ELSE [etl_system |-> <<>>,
              etl_job |-> basename(file_path),
              appname |-> <<>>]

\* the base directory lineage_analysis picks for a single file
single_file_base_path(file) ==
    LET file_dir == dirname(file)
        parent_name == basename(file_dir)
    IN  IF contains(parent_name, "-") \/ contains(parent_name, "_")
        THEN dirname(file_dir)
        ELSE file_dir

\* the arguments lineage_analysis hands to process_sql_script
\* entry = [sql |-> optional text id, file |-> optional path]
script_arguments(entry) ==
    IF ~entry.sql.is_none
    THEN [etl_system |-> <<"D", "E", "M", "O", "_", "S", "Y", "S", "T", "E", "M">>, etl_job |-> <<"D", "E", "M", "O", "_", "J", "O", "B">>,
          sql_path |-> <<"I", "N", "L", "I", "N", "E", "_", "S", "Q", "L">>]
    ELSE LET etl_info == parse_etl_info_from_path(entry.file.value,
                             single_file_base_path(entry.file.value))
         IN  [etl_system |-> etl_info.etl_system,
              etl_job |-> etl_info.etl_job,
              sql_path |-> path_str(entry.file.value)]

\* the metadata file lineage_analysis asks for
MetadataConfigTemplate == "metadata_config_template"

\* DummyMetaDataProvider(metadata_dict): a provider is told by the name of the
\* metadata file its metadata_dict was read from
DummyMetaDataProvider(metadata_file_name) == metadata_file_name

\* get_metadata_for_lineage(metadata_file_name): what it returns and the
\* _global_metadata_provider it leaves; cached is _global_metadata_provider
\* at the call and loaded the files the metadata service serves metadata of
get_metadata_for_lineage(metadata_file_name, cached, loaded) ==
    IF metadata_file_name = "None" THEN [returned |-> "None", cached |-> cached]
    ELSE IF cached # "None" THEN [returned |-> cached, cached |-> cached]
    ELSE IF metadata_file_name \notin loaded
    THEN [returned |-> "None", cached |-> cached]
    ELSE [returned |-> DummyMetaDataProvider(metadata_file_name),
          cached |-> DummyMetaDataProvider(metadata_file_name)]

(***************************************************************************)
(* Idle values of the parts a specification does not exercise              *)
(***************************************************************************)
EngineIdle ==
    /\ pc = "idle"
    /\ run = 0
    /\ run_limit = 0
    /\ call_entry = [sql |-> None, file |-> None]
    /\ script_text = <<>>
    /\ metadata_loaded = FALSE
    /\ global_metadata_provider = "None"
    /\ args = [etl_system |-> <<>>, etl_job |-> <<>>, sql_path |-> <<>>]
    /\ temp_table_set = {}
    /\ sql_statements = <<>>
    /\ sql_index = 0
    /\ current_db = <<>>
    /\ all_lineage_records = <<>>
    /\ parser_calls = <<>>
    /\ oracle_statements = <<>>
    /\ first_result = <<>>

ResolverIdle ==
    /\ rs_pc = "idle"
    /\ cytoscape_data = <<>>
    /\ rs_temp_tables = {}
    /\ lineage_paths = <<>>
    /\ rs_subquery_nodes = {}

NamingIdle ==
    /\ nm_pc = "idle"
    /\ nm_calls = <<>>
    /\ nm_names = <<>>

NormalizerIdle ==
    /\ nz_pc = "idle"
    /\ nz_input = <<>>
    /\ nz_source_info = <<>>
    /\ nz_target_info = <<>>
    /\ nz_records = <<>>

ServiceIdle ==
    /\ zc_pc = <<>>
    /\ zc_starts = <<>>
    /\ zc_named = 0
    /\ zc_buf = <<>>
    /\ zc_shared_memories = <<>>
    /\ zc_is_creator = <<>>
    /\ zc_created = <<>>

TraceIdle ==
    /\ tr_pc = "idle"
    /\ tr_call = <<>>
    /\ tr_stack = <<>>
    /\ tr_queue = <<>>
    /\ tr_visited = {}
    /\ tr_result = <<>>

ProcessorIdle ==
    /\ op_pc = "idle"
    /\ op_script = <<>>
    /\ op_temp_tables = {}
    /\ op_sql_statements = <<>>
    /\ op_index = 0
    /\ op_lineage_records = <<>>
    /\ op_oracle_statements = <<>>

ProviderIdle ==
    /\ md_calls = <<>>
    /\ md_loaded = {}
    /\ md_provider = "None"
    /\ md_returned = <<>>

(***************************************************************************)
(* Resolver harness: a bounded parser graph is resolved in one step        *)
(***************************************************************************)
TableNames == {<<"a">>, <<"b">>, <<"c">>}

col(t) == t \o <<".", "x">>

ColumnIds == {col(t) : t \in TableNames}

\* an id without table part, as the target of an edge
BareId == <<"k">>

TargetIds == ColumnIds \cup {BareId}

EdgeItems == {[id |-> <<"e">>, source |-> s, target |-> t] :
                 s \in ColumnIds, t \in TargetIds}

EdgeLists == UNION {[1..n -> EdgeItems] : n \in 1..MaxEdges}

\* the node items the parser emits for the tables and columns of the graph
table_node(t, subq) ==
    [id |-> t, type |-> IF t \in subq THEN "SubQuery" ELSE "Table"]

column_node(t, subq) ==
    [id |-> col(t), type |-> "Column",
     parent_candidates |->
        <<[type |-> IF t \in subq THEN "SubQuery" ELSE "Table", name |-> t]>>]

\* the node items of the graph; the tables in absent have no node at all
node_items(subq, absent) ==
    (IF <<"a">> \in absent THEN <<>>
     ELSE <<table_node(<<"a">>, subq), column_node(<<"a">>, subq)>>)
    \o <<table_node(<<"b">>, subq), column_node(<<"b">>, subq),
         table_node(<<"c">>, subq), column_node(<<"c">>, subq)>>

SubqueryChoices == {{}, {<<"b">>}}
TempChoices == {{}, {<<"c">>}}
AbsentChoices == {{}, {<<"a">>}}

ResolveInit ==
    /\ rs_pc = "input"
    /\ \E es \in EdgeLists, subq \in SubqueryChoices, absent \in AbsentChoices :
          cytoscape_data = node_items(subq, absent) \o es
    /\ rs_temp_tables \in TempChoices
    /\ lineage_paths = <<>>
    /\ rs_subquery_nodes = {}
    /\ EngineIdle
    /\ NamingIdle
    /\ NormalizerIdle
    /\ ServiceIdle
    /\ TraceIdle
    /\ ProcessorIdle
    /\ ProviderIdle

Resolve ==
    /\ rs_pc = "input"
    /\ LET r == trace_lineage_through_subqueries(cytoscape_data, rs_temp_tables)
       IN  /\ lineage_paths' = r.lineage_paths
           /\ rs_subquery_nodes' = r.subquery_nodes
    /\ rs_pc' = "done"
    /\ UNCHANGED <<cytoscape_data, rs_temp_tables, engine_vars, nm_vars, aux_vars>>

ResolveNext == Resolve

SpecResolve == ResolveInit /\ [][ResolveNext]_vars

\* the same graphs resolved by the tagging variant
tags_Resolve ==
    /\ rs_pc = "input"
    /\ LET r == tags_trace_lineage_through_subqueries(cytoscape_data, rs_temp_tables)
       IN  /\ lineage_paths' = r.lineage_paths
           /\ rs_subquery_nodes' = r.subquery_nodes
    /\ rs_pc' = "done"
    /\ UNCHANGED <<cytoscape_data, rs_temp_tables, engine_vars, nm_vars, aux_vars>>

TagsResolveNext == tags_Resolve

SpecResolveTags == ResolveInit /\ [][TagsResolveNext]_vars

\* each graph resolved by either variant
ResolveBothNext == Resolve \/ tags_Resolve

SpecResolveBoth == ResolveInit /\ [][ResolveBothNext]_vars

(***************************************************************************)
(* The tracing functions step by step.  trace_to_real_source and           *)
(* trace_through_temp_tables run on a stack of frames, one per call that   *)
(* has not returned; has_intermediate_path runs on its queue.              *)
(***************************************************************************)
\* the deepest nesting of tracing calls the stack may hold
MaxDepth == 6

\* the number of edges of the graphs traced step by step
MaxTraceEdges == 2

TraceEdgeLists == UNION {[1..n -> EdgeItems] : n \in 1..MaxTraceEdges}

TraceInit ==
    /\ tr_pc = "input"
    /\ tr_call = <<>>
    /\ tr_stack = <<>>
    /\ tr_queue = <<>>
    /\ tr_visited = {}
    /\ tr_result = <<>>
    /\ rs_pc = "idle"
    /\ \E es \in TraceEdgeLists, subq \in SubqueryChoices :
          cytoscape_data = node_items(subq, {}) \o es
    /\ rs_temp_tables \in TempChoices
    /\ lineage_paths = <<>>
    /\ rs_subquery_nodes = {}
    /\ EngineIdle
    /\ NamingIdle
    /\ NormalizerIdle
    /\ ServiceIdle
    /\ ProcessorIdle
    /\ ProviderIdle

tr_edges == edges_of(cytoscape_data)
tr_nodes == nodes_dict(cytoscape_data)
tr_subquery_nodes == subquery_nodes_of(cytoscape_data)

\* a call of fn(column_id, visited) that has not yet run its first statement
frame(fn, column_id, visited) ==
    [fn |-> fn, column_id |-> column_id, visited |-> visited, at |-> "entry",
     sources |-> <<>>, real_sources |-> <<>>]

\* the stack after the innermost call returned value to its caller's
\* real_sources.extend(deeper_sources)
stack_after_return(stack, value) ==
    LET n == Len(stack)
    IN  IF n = 1 THEN <<>>
        ELSE [SubSeq(stack, 1, n-1) EXCEPT ![n-1].real_sources = @ \o value]

\* the stack after the innermost call's loop took source_id off its sources
\* and called fn(source_id, visited.copy())
stack_after_call(stack, fn, source_id) ==
    LET n == Len(stack)
    IN  Append([stack EXCEPT ![n].sources = Tail(@)],
               frame(fn, source_id, stack[n].visited))

\* trace_to_real_source(source_id) as the second loop calls it for the
\* subquery column an exit edge starts from
begin_trace ==
    /\ tr_pc = "input"
    /\ \E k \in 1..Len(tr_edges) :
          /\ is_subquery_column(tr_edges[k].source, tr_subquery_nodes)
          /\ ~is_subquery_column(tr_edges[k].target, tr_subquery_nodes)
          /\ tr_call' = [fn |-> "trace_to_real_source",
                         source |-> tr_edges[k].source, target |-> <<>>]
          /\ tr_stack' = <<frame("trace_to_real_source", tr_edges[k].source, {})>>
    /\ tr_pc' = "tracing"
    /\ UNCHANGED <<tr_queue, tr_visited, tr_result, rs_vars, nm_vars, engine_vars,
                   nz_vars, zc_vars, op_vars, md_vars>>

\* the statements of a call before its loop: the visited check, visited.add
\* and, in trace_through_temp_tables, the return of a real table column
trace_enter ==
    /\ tr_pc = "tracing"
    /\ LET n == Len(tr_stack)
           top == tr_stack[n]
           value == IF top.column_id \in top.visited THEN <<>>
                    ELSE <<top.column_id>>
           returns ==
               \/ top.column_id \in top.visited
               \/ /\ top.fn = "trace_through_temp_tables"
                  /\ is_real_table_column(top.column_id, tr_nodes,
                                          tr_subquery_nodes, rs_temp_tables)
       IN  /\ top.at = "entry"
           /\ IF returns
              THEN /\ tr_stack' = stack_after_return(tr_stack, value)
                   /\ tr_result' = IF n = 1 THEN <<value>> ELSE tr_result
                   /\ tr_pc' = IF n = 1 THEN "done" ELSE tr_pc
              ELSE /\ tr_stack' =
                        [tr_stack EXCEPT
                           ![n].visited = visited_add(@, top.column_id),
                           ![n].sources = incoming_edges(tr_edges, top.column_id),
                           ![n].at = "loop"]
                   /\ UNCHANGED <<tr_result, tr_pc>>
    /\ UNCHANGED <<tr_call, tr_queue, tr_visited, rs_vars, nm_vars, engine_vars,
                   nz_vars, zc_vars, op_vars, md_vars>>

\* one iteration of the loop over incoming_edges.get(column_id, [])
trace_loop ==
    /\ tr_pc = "tracing"
    /\ LET n == Len(tr_stack)
           top == tr_stack[n]
           source_id == Head(top.sources)
           callee ==
               IF top.fn = "trace_through_temp_tables"
               THEN "trace_through_temp_tables"
               ELSE IF is_subquery_column(source_id, tr_subquery_nodes)
               THEN "trace_to_real_source"
               ELSE IF is_real_table_column(source_id, tr_nodes,
                                            tr_subquery_nodes, rs_temp_tables)
               THEN "append"
               ELSE IF is_temp_table_column(source_id, rs_temp_tables)
               THEN "trace_through_temp_tables"
               ELSE "pass"
       IN  /\ top.at = "loop"
           /\ top.sources # <<>>
           /\ IF callee = "append"
              THEN tr_stack' = [tr_stack EXCEPT ![n].sources = Tail(@),
                                  ![n].real_sources = Append(@, source_id)]
              ELSE IF callee = "pass"
              THEN tr_stack' = [tr_stack EXCEPT ![n].sources = Tail(@)]
              ELSE /\ n < MaxDepth
                   /\ tr_stack' = stack_after_call(tr_stack, callee, source_id)
    /\ UNCHANGED <<tr_pc, tr_call, tr_queue, tr_visited, tr_result, rs_vars,
                   nm_vars, engine_vars, nz_vars, zc_vars, op_vars, md_vars>>

\* return real_sources, after the loop
trace_return ==
    /\ tr_pc = "tracing"
    /\ LET n == Len(tr_stack)
           top == tr_stack[n]
       IN  /\ top.at = "loop"
           /\ top.sources = <<>>
           /\ tr_stack' = stack_after_return(tr_stack, top.real_sources)
           /\ tr_result' = IF n = 1 THEN <<top.real_sources>> ELSE tr_result
           /\ tr_pc' = IF n = 1 THEN "done" ELSE tr_pc
    /\ UNCHANGED <<tr_call, tr_queue, tr_visited, rs_vars, nm_vars, engine_vars,
                   nz_vars, zc_vars, op_vars, md_vars>>

\* has_intermediate_path(source, target) up to its while-loop, for the ends
\* of an edge or a traced source and the target of an edge
begin_search ==
    /\ tr_pc = "input"
    /\ \E j, k \in 1..Len(tr_edges) :
          LET source == tr_edges[j].source
              target == tr_edges[k].target
          IN  /\ tr_call' = [fn |-> "has_intermediate_path",
                             source |-> source, target |-> target]
              /\ IF source = target
                 THEN /\ tr_result' = <<FALSE>>
                      /\ tr_pc' = "done"
                      /\ UNCHANGED <<tr_queue, tr_visited>>
                 ELSE /\ tr_queue' = <<<<source, 0>>>>
                      /\ tr_visited' = {source}
                      /\ tr_pc' = "searching"
                      /\ UNCHANGED tr_result
    /\ UNCHANGED <<tr_stack, rs_vars, nm_vars, engine_vars, nz_vars, zc_vars,
                   op_vars, md_vars>>

\* one iteration of the while-loop of has_intermediate_path, or the return
\* after it
search_step ==
    /\ tr_pc = "searching"
    /\ IF tr_queue = <<>>
       THEN /\ tr_result' = <<FALSE>>
            /\ tr_pc' = "done"
            /\ UNCHANGED <<tr_queue, tr_visited>>
       ELSE LET node == Head(tr_queue)[1]
                distance == Head(tr_queue)[2]
                r == scan_neighbors(outgoing_edges(tr_edges, node), 1, distance,
                                    tr_call.target, tr_visited, Tail(tr_queue))
            IN  IF r.found
                THEN /\ tr_result' = <<r.result>>
                     /\ tr_pc' = "done"
                     /\ UNCHANGED <<tr_queue, tr_visited>>
                ELSE /\ tr_queue' = r.queue
                     /\ tr_visited' = r.visited
                     /\ UNCHANGED <<tr_result, tr_pc>>
    /\ UNCHANGED <<tr_call, tr_stack, rs_vars, nm_vars, engine_vars, nz_vars,
                   zc_vars, op_vars, md_vars>>

TraceNext ==
    \/ begin_trace
    \/ trace_enter
    \/ trace_loop
    \/ trace_return
    \/ begin_search
    \/ search_step

SpecTrace == TraceInit /\ [][TraceNext]_vars

\* every call that has been started keeps being run
SpecTraceLive == SpecTrace /\ WF_vars(TraceNext)

(***************************************************************************)
(* Branch harness: trace_to_real_source is called on the column b.x of a   *)
(* subquery whose sources are columns of a second subquery q, of an        *)
(* ephemeral table c and of a real table a                                 *)
(***************************************************************************)
MaxBranchEdges == 4

BranchSources == {col(<<"a">>), col(<<"c">>), col(<<"q">>)}
BranchTargets == {col(<<"b">>), col(<<"c">>), col(<<"q">>)}

BranchEdgeItems == {[id |-> <<"e">>, source |-> s, target |-> t] :
                       s \in BranchSources, t \in BranchTargets}

BranchEdgeLists == UNION {[1..n -> BranchEdgeItems] : n \in 1..MaxBranchEdges}

BranchInit ==
    /\ tr_pc = "input"
    /\ tr_call = [fn |-> "trace_to_real_source", source |-> col(<<"b">>),
                  target |-> <<>>]
    /\ tr_stack = <<>>
    /\ tr_queue = <<>>
    /\ tr_visited = {}
    /\ tr_result = <<>>
    /\ rs_pc = "idle"
    /\ \E es \in BranchEdgeLists :
          cytoscape_data =
              node_items({<<"b">>}, {})
              \o <<table_node(<<"q">>, {<<"q">>}), column_node(<<"q">>, {<<"q">>})>>
              \o es
    /\ rs_temp_tables = {<<"c">>}
    /\ lineage_paths = <<>>
    /\ rs_subquery_nodes = {}
    /\ EngineIdle
    /\ NamingIdle
    /\ NormalizerIdle
    /\ ServiceIdle
    /\ ProcessorIdle
    /\ ProviderIdle

\* real_sources = trace_to_real_source(source_id)
trace_branches ==
    /\ tr_pc = "input"
    /\ tr_result' = <<trace_to_real_source(tr_call.source, {}, tr_edges, tr_nodes,
                                           tr_subquery_nodes, rs_temp_tables)>>
    /\ tr_pc' = "done"
    /\ UNCHANGED <<tr_call, tr_stack, tr_queue, tr_visited, rs_vars, nm_vars,
                   engine_vars, nz_vars, zc_vars, op_vars, md_vars>>

BranchNext == trace_branches

SpecBranch == BranchInit /\ [][BranchNext]_vars

(***************************************************************************)
(* Normalizer harness: one resolved pair is normalized in one step         *)
(***************************************************************************)
\* '.'.join(parts)
RECURSIVE dotted(_)
dotted(parts) ==
    IF Len(parts) = 1 THEN parts[1]
    ELSE parts[1] \o <<".">> \o dotted(Tail(parts))

\* database prefixes a column id can carry, the parser's two sentinels included
NzDatabases == {<<"d", "b">>, DefaultDb, UnknownDb}

\* t: never created; Tmp: created by the script; q: name of a subquery
NzTables == {<<"t">>, <<"T", "m", "p">>, <<"q">>}

\* column ids as their parts: d.t.x, t.x and x
NzIdParts ==
    {<<d, t, <<"x">>>> : d \in NzDatabases, t \in NzTables}
        \cup {<<t, <<"x">>>> : t \in NzTables}
        \cup {<<<<"x">>>>}

NzTempChoices == {{}, {<<"t", "m", "p">>}, {<<"t", "m", "p">>, <<"q">>}}
NzSubqueryChoices == {{}, {<<"q">>}}
NzCurrentDatabases == {<<>>, <<"c", "u", "r">>}

NzInputs ==
    [source_parts : NzIdParts, target_parts : NzIdParts,
     temp_tables : NzTempChoices, subquery_nodes : NzSubqueryChoices,
     current_database : NzCurrentDatabases]

NormalizeInit ==
    /\ nz_pc = "input"
    /\ nz_input \in NzInputs
    /\ nz_source_info = <<>>
    /\ nz_target_info = <<>>
    /\ nz_records = <<>>
    /\ EngineIdle
    /\ ResolverIdle
    /\ NamingIdle
    /\ ServiceIdle
    /\ TraceIdle
    /\ ProcessorIdle
    /\ ProviderIdle

\* the pair as the resolver hands it to the loop of process_cytoscape_lineage
nz_path == [source |-> dotted(nz_input.source_parts),
            target |-> dotted(nz_input.target_parts)]

\* lineage_sql_with_database: statement 1 of the inline job
normalize ==
    /\ nz_pc = "input"
    /\ nz_source_info' = extract_database_table_column(nz_path.source,
           nz_input.temp_tables, nz_input.subquery_nodes,
           nz_input.current_database, <<"D", "E", "M", "O", "_", "J", "O", "B">>, 1)
    /\ nz_target_info' = extract_database_table_column(nz_path.target,
           nz_input.temp_tables, nz_input.subquery_nodes,
           nz_input.current_database, <<"D", "E", "M", "O", "_", "J", "O", "B">>, 1)
    /\ nz_records' = records_of_paths(<<nz_path>>, nz_input.temp_tables,
           nz_input.subquery_nodes, nz_input.current_database,
           <<"D", "E", "M", "O", "_", "S", "Y", "S", "T", "E", "M">>, <<"D", "E", "M", "O", "_", "J", "O", "B">>, <<"I", "N", "L", "I", "N", "E", "_", "S", "Q", "L">>, 1)
    /\ nz_pc' = "done"
    /\ UNCHANGED <<nz_input, engine_vars, rs_vars, nm_vars, zc_vars, later_vars>>

NormalizeNext == normalize

SpecNormalize == NormalizeInit /\ [][NormalizeNext]_vars

\* lineage_sql_with_tags: statement 1 of an inline script
tags_normalize ==
    /\ nz_pc = "input"
    /\ nz_source_info' = tags_extract_database_table_column(nz_path.source,
           nz_input.temp_tables, nz_input.subquery_nodes)
    /\ nz_target_info' = tags_extract_database_table_column(nz_path.target,
           nz_input.temp_tables, nz_input.subquery_nodes)
    /\ nz_records' = tags_records_of_paths(<<nz_path>>, nz_input.temp_tables,
           nz_input.subquery_nodes, <<>>, <<>>, <<>>, 1)
    /\ nz_pc' = "done"
    /\ UNCHANGED <<nz_input, engine_vars, rs_vars, nm_vars, zc_vars, later_vars>>

TagsNormalizeNext == tags_normalize

SpecNormalizeTags == NormalizeInit /\ [][TagsNormalizeNext]_vars

(***************************************************************************)
(* ZeroCopyMetadataService: two instances serving the same metadata file,  *)
(* hence the same shared memory name.  A step is one operation on the      *)
(* system's shared memory namespace; a segment lives on under its handles  *)
(* after its name is unlinked (POSIX shm_unlink).                          *)
(***************************************************************************)
Instances == {1, 2}

\* shared_memory.SharedMemory(name=...): the segment attached to, 0 when the
\* name does not exist (FileNotFoundError)
attach(named) == named

\* is_service_running(shared_memory_name)
is_service_running(named) == attach(named) # 0

\* what pickle.loads makes of a segment's bytes: the metadata dict once the
\* serialized data is written, an exception on the zero bytes before that
loads(bytes) == IF bytes = "serialized" THEN "metadata" ELSE "raises"

\* get_metadata(shared_memory_name): the dict, "empty" standing for {}
get_metadata(named, buf) ==
    IF attach(named) = 0 THEN "empty"
    ELSE IF loads(buf[attach(named)]) = "metadata" THEN "metadata"
    ELSE "empty"

ServiceInit ==
    /\ zc_pc = [i \in Instances |-> "idle"]
    /\ zc_starts = [i \in Instances |-> 0]
    /\ zc_named = 0
    /\ zc_buf = <<>>
    /\ zc_shared_memories = [i \in Instances |-> 0]
    /\ zc_is_creator = [i \in Instances |-> FALSE]
    /\ zc_created = [i \in Instances |-> {}]
    /\ EngineIdle
    /\ ResolverIdle
    /\ NamingIdle
    /\ NormalizerIdle
    /\ TraceIdle
    /\ ProcessorIdle
    /\ ProviderIdle

\* start_service up to the call of create_shared_memory_for_file: the
\* cleanup handlers are registered, the metadata directory holds the one JSON
\* file and it loads
start_service(i) ==
    /\ zc_pc[i] = "idle"
    /\ zc_starts[i] < MaxStarts
    /\ zc_starts' = [zc_starts EXCEPT ![i] = @ + 1]
    /\ zc_pc' = [zc_pc EXCEPT ![i] = "cleanup_existing"]
    /\ UNCHANGED <<zc_named, zc_buf, zc_shared_memories, zc_is_creator, zc_created>>
    /\ UNCHANGED <<engine_vars, rs_vars, nm_vars, nz_vars, later_vars>>

\* cleanup_existing_memory: whatever segment has the name is unlinked
cleanup_existing_memory(i) ==
    /\ zc_pc[i] = "cleanup_existing"
    /\ zc_named' = 0
    /\ zc_pc' = [zc_pc EXCEPT ![i] = "create"]
    /\ UNCHANGED <<zc_starts, zc_buf, zc_shared_memories, zc_is_creator, zc_created>>
    /\ UNCHANGED <<engine_vars, rs_vars, nm_vars, nz_vars, later_vars>>

\* SharedMemory(name, create=True, size): a new zero-filled segment, or
\* FileExistsError when the name exists again, which makes
\* create_shared_memory_for_file and then start_service return False
create_shared_memory(i) ==
    /\ zc_pc[i] = "create"
    /\ IF zc_named # 0
       THEN /\ zc_pc' = [zc_pc EXCEPT ![i] = "idle"]
            /\ UNCHANGED <<zc_named, zc_buf, zc_created>>
       ELSE /\ zc_buf' = Append(zc_buf, "zeros")
            /\ zc_named' = Len(zc_buf) + 1
            /\ zc_created' = [zc_created EXCEPT ![i] = @ \cup {Len(zc_buf) + 1}]
            /\ zc_pc' = [zc_pc EXCEPT ![i] = "write"]
    /\ UNCHANGED <<zc_starts, zc_shared_memories, zc_is_creator>>
    /\ UNCHANGED <<engine_vars, rs_vars, nm_vars, nz_vars, later_vars>>

\* shm.buf[:data_size] = serialized_data and the entry in
\* self.shared_memories: create_shared_memory_for_file returns True
store_shared_memory(i) ==
    /\ zc_pc[i] = "write"
    /\ zc_buf' = [zc_buf EXCEPT ![Len(zc_buf)] = "serialized"]
    /\ zc_shared_memories' = [zc_shared_memories EXCEPT ![i] = Len(zc_buf)]
    /\ zc_pc' = [zc_pc EXCEPT ![i] = "stored"]
    /\ UNCHANGED <<zc_starts, zc_named, zc_is_creator, zc_created>>
    /\ UNCHANGED <<engine_vars, rs_vars, nm_vars, nz_vars, later_vars>>

\* the rest of start_service after the loop over the files: success_count
\* is 1, self.is_creator = True, and it returns True
return_started(i) ==
    /\ zc_pc[i] = "stored"
    /\ zc_is_creator' = [zc_is_creator EXCEPT ![i] = TRUE]
    /\ zc_pc' = [zc_pc EXCEPT ![i] = "running"]
    /\ UNCHANGED <<zc_starts, zc_named, zc_buf, zc_shared_memories, zc_created>>
    /\ UNCHANGED <<engine_vars, rs_vars, nm_vars, nz_vars, later_vars>>

\* what self.cleanup() leaves: nothing changes without an entry in
\* self.shared_memories; otherwise shm.unlink() removes the name when
\* is_creator is set, whichever segment it refers to by now
\* (FileNotFoundError is caught), and the instance forgets its segment
cleanup_result(i) ==
    IF zc_shared_memories[i] = 0
    THEN [named |-> zc_named, shared_memories |-> zc_shared_memories[i],
          is_creator |-> zc_is_creator[i]]
    ELSE [named |-> IF zc_is_creator[i] THEN 0 ELSE zc_named,
          shared_memories |-> 0, is_creator |-> FALSE]

\* cleanup of a started instance, at the end of keep_running
cleanup(i) ==
    /\ zc_pc[i] = "running"
    /\ zc_shared_memories[i] # 0
    /\ zc_named' = cleanup_result(i).named
    /\ zc_shared_memories' = [zc_shared_memories EXCEPT ![i] = cleanup_result(i).shared_memories]
    /\ zc_is_creator' = [zc_is_creator EXCEPT ![i] = cleanup_result(i).is_creator]
    /\ zc_pc' = [zc_pc EXCEPT ![i] = "idle"]
    /\ UNCHANGED <<zc_starts, zc_buf, zc_created>>
    /\ UNCHANGED <<engine_vars, rs_vars, nm_vars, nz_vars, later_vars>>

\* signal_handler of register_cleanup: a signal arrives anywhere after
\* start_service has registered the handlers; cleanup(), then sys.exit(0)
signal_handler(i) ==
    /\ zc_pc[i] \in {"cleanup_existing", "create", "write", "stored", "running"}
    /\ zc_named' = cleanup_result(i).named
    /\ zc_shared_memories' = [zc_shared_memories EXCEPT ![i] = cleanup_result(i).shared_memories]
    /\ zc_is_creator' = [zc_is_creator EXCEPT ![i] = cleanup_result(i).is_creator]
    /\ zc_pc' = [zc_pc EXCEPT ![i] = "exiting"]
    /\ UNCHANGED <<zc_starts, zc_buf, zc_created>>
    /\ UNCHANGED <<engine_vars, rs_vars, nm_vars, nz_vars, later_vars>>

\* exit_handler of register_cleanup, run by atexit after sys.exit(0):
\* cleanup() a second time
exit_handler(i) ==
    /\ zc_pc[i] = "exiting"
    /\ zc_named' = cleanup_result(i).named
    /\ zc_shared_memories' = [zc_shared_memories EXCEPT ![i] = cleanup_result(i).shared_memories]
    /\ zc_is_creator' = [zc_is_creator EXCEPT ![i] = cleanup_result(i).is_creator]
    /\ zc_pc' = [zc_pc EXCEPT ![i] = "exited"]
    /\ UNCHANGED <<zc_starts, zc_buf, zc_created>>
    /\ UNCHANGED <<engine_vars, rs_vars, nm_vars, nz_vars, later_vars>>

ServiceNext ==
    \E i \in Instances :
        \/ start_service(i)
        \/ cleanup_existing_memory(i)
        \/ create_shared_memory(i)
        \/ store_shared_memory(i)
        \/ return_started(i)
        \/ cleanup(i)
        \/ signal_handler(i)
        \/ exit_handler(i)

SpecService == ServiceInit /\ [][ServiceNext]_vars

(***************************************************************************)
(* get_metadata_for_lineage called several times in one process            *)
(***************************************************************************)
MaxCalls == 3

MetadataFiles == {MetadataConfigTemplate, "other_metadata"}

\* the metadata_file_name of a call: a file name or None
MetadataFileNames == MetadataFiles \cup {"None"}

ProviderInit ==
    /\ md_calls \in UNION {[1..n -> MetadataFileNames] : n \in 1..MaxCalls}
    /\ md_loaded \in SUBSET MetadataFiles
    /\ md_provider = "None"
    /\ md_returned = <<>>
    /\ EngineIdle
    /\ ResolverIdle
    /\ NamingIdle
    /\ NormalizerIdle
    /\ ServiceIdle
    /\ TraceIdle
    /\ ProcessorIdle

\* the next call of get_metadata_for_lineage
call_get_metadata_for_lineage ==
    /\ Len(md_returned) < Len(md_calls)
    /\ LET r == get_metadata_for_lineage(md_calls[Len(md_returned) + 1],
                                         md_provider, md_loaded)
       IN  /\ md_provider' = r.cached
           /\ md_returned' = Append(md_returned, r.returned)
    /\ UNCHANGED <<md_calls, md_loaded, rs_vars, nm_vars, engine_vars, nz_vars,
                   zc_vars, tr_vars, op_vars>>

ProviderNext == call_get_metadata_for_lineage

SpecProvider == ProviderInit /\ [][ProviderNext]_vars

(***************************************************************************)
(* Scripts and calls of the model                                          *)
(***************************************************************************)
ScriptsUpTo(statements, max_len) == UNION {[1..n -> statements] : n \in 1..max_len}

\* the statements of the long scripts
CoreStatements == Statements \ {"ctas_paren", "create_quoted"}

InlineEntry == [sql |-> Some(<<"t", "e", "x", "t">>), file |-> None]
FileEntry(path) == [sql |-> None, file |-> Some(path)]

\* a call that gives both the text and a path, and one that gives neither
BothEntry == [sql |-> Some(<<"t", "e", "x", "t">>),
              file |-> Some(<<<<"d">>, <<"a", ".", "s", "q", "l">>>>)]
NeitherEntry == [sql |-> None, file |-> None]

\* the calls with proper arguments, and all calls
Entries == {InlineEntry, FileEntry(<<<<"d">>, <<"a", ".", "s", "q", "l">>>>)}

AllEntries == Entries \cup {BothEntry, NeitherEntry}

(***************************************************************************)
(* OptimizedSQLLineageProcessor (lineage_sql): one instance, one call of   *)
(* process_sql_script.  clean_table_name and is_temp_table have the text   *)
(* of the functions of lineage_sql_with_database, with self.temp_tables as *)
(* the set.                                                                *)
(***************************************************************************)
\* the table name the CREATE pattern of this class captures when its CREATE
\* keyword is the k-th word of the statement (empty: no match)
processor_create_match(stmt, k) ==
    LET U(j) == upper(word_at(stmt, j))
        k2 == IF U(k+1) \in {<<"T", "E", "M", "P", "O", "R", "A", "R", "Y">>, <<"T", "E", "M", "P">>} THEN k+2 ELSE k+1
        k3 == k2 + 1
        k4 == IF U(k3) = <<"I", "F">> /\ U(k3+1) = <<"N", "O", "T">> /\ U(k3+2) = <<"E", "X", "I", "S", "T", "S">>
                 /\ name_prefix(word_at(stmt, k3+3)) # <<>>
              THEN k3+3 ELSE k3
    IN  IF U(k) = <<"C", "R", "E", "A", "T", "E">> /\ U(k2) \in {<<"T", "A", "B", "L", "E">>, <<"V", "I", "E", "W">>}
        THEN name_prefix(word_at(stmt, k4))
        ELSE <<>>

\* [^\s\;\,]+ : the leading characters of a word up to ';' or ','
RECURSIVE dropped_name_prefix(_)
dropped_name_prefix(w) ==
    IF w = <<>> \/ w[1] \in {";", ","} THEN <<>>
    ELSE <<w[1]>> \o dropped_name_prefix(Tail(w))

\* the table name the DROP pattern captures when its DROP keyword is the
\* k-th word of the statement (empty: no match)
drop_match(stmt, k) ==
    LET U(j) == upper(word_at(stmt, j))
        k2 == k + 2
        k3 == IF U(k2) = <<"I", "F">> /\ U(k2+1) = <<"E", "X", "I", "S", "T", "S">>
                 /\ dropped_name_prefix(word_at(stmt, k2+2)) # <<>>
              THEN k2+2 ELSE k2
    IN  IF U(k) = <<"D", "R", "O", "P">> /\ U(k+1) \in {<<"T", "A", "B", "L", "E">>, <<"V", "I", "E", "W">>}
        THEN dropped_name_prefix(word_at(stmt, k3))
        ELSE <<>>

\* self.temp_tables after extract_temp_tables_from_script: the tables the
\* script both creates and drops
processor_extract_temp_tables_from_script(sql_script) ==
    LET created_tables ==
            UNION { LET w == words_of(sql_script[n])
                    IN  {clean_table_name(processor_create_match(w, k)) :
                            k \in {j \in 1..Len(w) : processor_create_match(w, j) # <<>>}}
                    : n \in 1..Len(sql_script) }
        dropped_tables ==
            UNION { LET w == words_of(sql_script[n])
                    IN  {clean_table_name(drop_match(w, k)) :
                            k \in {j \in 1..Len(w) : drop_match(w, j) # <<>>}}
                    : n \in 1..Len(sql_script) }
    IN  created_tables \cap dropped_tables

processor_is_subquery_from_cytoscape(column_data) ==
    LET parent_candidates == get(column_data, "parent_candidates", <<>>)
    IN  \E k \in 1..Len(parent_candidates) :
            get(parent_candidates[k], "type", "") = "SubQuery"

\* None is the empty info
processor_extract_database_table_column(column_id) ==
    LET parts == split(column_id, ".")
    IN  IF column_id = <<>> THEN None
        ELSE IF Len(parts) >= 3
        THEN Some([database |-> IF parts[1] # UnknownDb THEN parts[1] ELSE <<>>,
                   schema |-> <<>>, table |-> parts[2], column |-> parts[3]])
        ELSE IF Len(parts) = 2
        THEN Some([database |-> <<>>, schema |-> <<>>,
                   table |-> parts[1], column |-> parts[2]])
        ELSE Some([database |-> <<>>, schema |-> <<>>,
                   table |-> <<>>, column |-> parts[1]])

\* the name of the first Table candidate that is not ephemeral (empty: None)
processor_find_real_source_table(column_data, temp_tables) ==
    LET parent_candidates == get(column_data, "parent_candidates", <<>>)
        found == {k \in 1..Len(parent_candidates) :
                     /\ get(parent_candidates[k], "type", "") = "Table"
                     /\ get(parent_candidates[k], "name", <<>>) # <<>>
                     /\ ~is_temp_table(get(parent_candidates[k], "name", <<>>),
                                       temp_tables)}
    IN  IF found = {} THEN <<>>
        ELSE parent_candidates[CHOOSE k \in found : \A j \in found : k <= j].name

\* an info without table gets the table (and database) of the real table
\* found among the parent candidates; ok is false when there is none
processor_with_real_table(info, column_data, temp_tables) ==
    LET real_table == processor_find_real_source_table(column_data, temp_tables)
        table_parts == split(real_table, ".")
    IN  IF info.table # <<>> THEN [ok |-> TRUE, info |-> info]
        ELSE IF real_table = <<>> THEN [ok |-> FALSE, info |-> info]
        ELSE IF Len(table_parts) >= 2
        THEN [ok |-> TRUE, info |-> [info EXCEPT !.database = table_parts[1],
                                                 !.table = table_parts[2]]]
        ELSE [ok |-> TRUE, info |-> [info EXCEPT !.table = table_parts[1]]]

\* the records the loop over the edges appends from the k-th edge on
RECURSIVE processor_records_of_edges(_, _, _, _)
processor_records_of_edges(edges, k, nodes, temp_tables) ==
    IF k > Len(edges) THEN <<>>
    ELSE LET source_id == edges[k].source
             target_id == edges[k].target
             source_data == IF source_id \in DOMAIN nodes
                            THEN nodes[source_id] ELSE [id |-> source_id]
             target_data == IF target_id \in DOMAIN nodes
                            THEN nodes[target_id] ELSE [id |-> target_id]
             source == processor_with_real_table(
                           processor_extract_database_table_column(source_id).value,
                           source_data, temp_tables)
             target == processor_with_real_table(
                           processor_extract_database_table_column(target_id).value,
                           target_data, temp_tables)
             more == processor_records_of_edges(edges, k+1, nodes, temp_tables)
         IN  IF source_id = <<>> \/ target_id = <<>> THEN more
             ELSE IF \/ processor_is_subquery_from_cytoscape(source_data)
                     \/ processor_is_subquery_from_cytoscape(target_data)
             THEN more
             ELSE IF ~source.ok \/ ~target.ok THEN more
             ELSE IF \/ is_temp_table(source.info.database \o <<".">> \o source.info.table,
                                      temp_tables)
                     \/ is_temp_table(target.info.database \o <<".">> \o target.info.table,
                                      temp_tables)
             THEN more
             ELSE <<[source_database |-> source.info.database,
                     source_schema |-> source.info.schema,
                     source_table |-> source.info.table,
                     source_column |-> source.info.column,
                     target_database |-> target.info.database,
                     target_schema |-> target.info.schema,
                     target_table |-> target.info.table,
                     target_column |-> target.info.column]>> \o more

\* self.lineage_records after process_cytoscape_lineage(cytoscape_data)
processor_process_cytoscape_lineage(lineage_records, cyto, temp_tables) ==
    LET cleared == <<>>
    IN  IF cyto = <<>> THEN cleared
        ELSE cleared \o processor_records_of_edges(edges_of(cyto), 1,
                                                   nodes_dict(cyto), temp_tables)

\* self.lineage_records after process_single_sql(sql_statement): both
\* try/except blocks keep every exception of the parser inside the call
processor_process_single_sql(lineage_records, st, temp_tables) ==
    IF parser_of(st).outcome = "graph" /\ parser_of(st).graph # <<>>
    THEN processor_process_cytoscape_lineage(lineage_records, parser_of(st).graph,
                                             temp_tables)
    ELSE lineage_records

\* the lines of the text generate_oracle_insert_statements returns
processor_generate_oracle_insert_statements(lineage_records) ==
    IF lineage_records = <<>> THEN <<[kind |-> "COMMENT", record |-> <<>>]>>
    ELSE <<[kind |-> "COMMENT", record |-> <<>>], [kind |-> "COMMENT", record |-> <<>>],
           [kind |-> "BLANK", record |-> <<>>]>>
         \o [k \in 1..Len(lineage_records) |->
                [kind |-> "INSERT", record |-> lineage_records[k]]]
         \o <<[kind |-> "BLANK", record |-> <<>>], [kind |-> "COMMIT", record |-> <<>>]>>

\* the statements of the scripts given to the processor
ProcessorStatements ==
    {"ctas", "insert", "insert_subquery", "drop", "select_empty", "merge_raises"}

ProcessorInit ==
    /\ op_pc = "input"
    /\ op_script \in ScriptsUpTo(ProcessorStatements, MaxStmts)
    /\ op_temp_tables = {}
    /\ op_sql_statements = <<>>
    /\ op_index = 0
    /\ op_lineage_records = <<>>
    /\ op_oracle_statements = <<>>
    /\ EngineIdle
    /\ ResolverIdle
    /\ NamingIdle
    /\ NormalizerIdle
    /\ ServiceIdle
    /\ TraceIdle
    /\ ProviderIdle

\* process_sql_script up to its loop
processor_process_sql_script ==
    /\ op_pc = "input"
    /\ op_temp_tables' = processor_extract_temp_tables_from_script(op_script)
    /\ op_sql_statements' = split_sql_statements(op_script)
    /\ op_lineage_records' = <<>>
    /\ op_index' = 0
    /\ op_pc' = "loop"
    /\ UNCHANGED <<op_script, op_oracle_statements, rs_vars, nm_vars, engine_vars,
                   nz_vars, zc_vars, tr_vars, md_vars>>

\* one iteration of the loop of process_sql_script
processor_process_statement ==
    /\ op_pc = "loop"
    /\ op_index < Len(op_sql_statements)
    /\ op_lineage_records' =
          processor_process_single_sql(op_lineage_records,
                                       op_sql_statements[op_index + 1],
                                       op_temp_tables)
    /\ op_index' = op_index + 1
    /\ UNCHANGED <<op_pc, op_script, op_temp_tables, op_sql_statements,
                   op_oracle_statements, rs_vars, nm_vars, engine_vars,
                   nz_vars, zc_vars, tr_vars, md_vars>>

\* process_sql_script after its loop
processor_return ==
    /\ op_pc = "loop"
    /\ op_index = Len(op_sql_statements)
    /\ op_oracle_statements' =
          processor_generate_oracle_insert_statements(op_lineage_records)
    /\ op_pc' = "returned"
    /\ UNCHANGED <<op_script, op_temp_tables, op_sql_statements, op_index,
                   op_lineage_records, rs_vars, nm_vars, engine_vars,
                   nz_vars, zc_vars, tr_vars, md_vars>>

ProcessorNext ==
    \/ processor_process_sql_script
    \/ processor_process_statement
    \/ processor_return

SpecProcessor == ProcessorInit /\ [][ProcessorNext]_vars

(***************************************************************************)
(* The engine: lineage_analysis called RunsPerProcess times in one process *)
(***************************************************************************)
\* a process that makes run_limit calls, with arguments among entries, on a
\* script of at most max_len statements among statements
EngineInit(limit, max_len, entries, statements) ==
    /\ pc = "idle"
    /\ run = 0
    /\ run_limit = limit
    /\ call_entry \in entries
    /\ script_text \in ScriptsUpTo(statements, max_len)
    /\ metadata_loaded \in BOOLEAN
    /\ global_metadata_provider = "None"
    /\ args = [etl_system |-> <<>>, etl_job |-> <<>>, sql_path |-> <<>>]
    /\ temp_table_set = {}
    /\ sql_statements = <<>>
    /\ sql_index = 0
    /\ current_db = <<>>
    /\ all_lineage_records = <<>>
    /\ parser_calls = <<>>
    /\ oracle_statements = <<>>
    /\ first_result = <<>>
    /\ ResolverIdle
    /\ NamingIdle
    /\ NormalizerIdle
    /\ ServiceIdle
    /\ TraceIdle
    /\ ProcessorIdle
    /\ ProviderIdle

\* one call of lineage_analysis with proper arguments
Init == EngineInit(1, MaxStmts, Entries, CoreStatements)

\* the same call, proper or not, made RunsPerProcess times in one process
InitRerun == EngineInit(RunsPerProcess, MaxRerunStmts, AllEntries, Statements)

\* variant: the default database of the previous call is kept
script_locals_keep_database(leftover) ==
    [all_lineage_records |-> <<>>, current_db |-> leftover.current_db]

\* the locals process_sql_script starts its statement loop with; leftover is
\* what an earlier call in the same process ended with
script_locals(leftover) ==
    [all_lineage_records |-> <<>>, current_db |-> <<>>]

\* variant: only the call without any argument is a usage error
usage_error_missing_only(sql, file) == sql.is_none /\ file.is_none

\* the two argument checks of lineage_analysis that raise ValueError
usage_error(sql, file) ==
    \/ ~sql.is_none /\ ~file.is_none
    \/ sql.is_none /\ file.is_none

\* lineage_analysis up to the statement loop of process_sql_script, or up to
\* the ValueError it raises
lineage_analysis ==
    /\ pc \in {"idle", "returned"}
    /\ run < run_limit
    /\ run' = run + 1
    /\ global_metadata_provider' =
          get_metadata_for_lineage(MetadataConfigTemplate, global_metadata_provider,
              IF metadata_loaded THEN {MetadataConfigTemplate} ELSE {}).cached
    /\ IF usage_error(call_entry.sql, call_entry.file)
       THEN /\ pc' = "value_error"
            /\ UNCHANGED <<args, temp_table_set, sql_statements,
                           all_lineage_records, current_db, sql_index,
                           parser_calls>>
       ELSE /\ args' = script_arguments(call_entry)
            /\ temp_table_set' = extract_temp_tables_from_script(script_text)
            /\ sql_statements' = split_sql_statements(script_text)
            /\ LET locals == script_locals([all_lineage_records |-> all_lineage_records,
                                            current_db |-> current_db])
               IN  /\ all_lineage_records' = locals.all_lineage_records
                   /\ current_db' = locals.current_db
            /\ sql_index' = 0
            /\ parser_calls' = <<>>
            /\ pc' = "loop"
    /\ UNCHANGED <<run_limit, call_entry, script_text, metadata_loaded,
                   oracle_statements, first_result, rs_vars, nm_vars, aux_vars>>

\* variant: the set holds the tables created up to the statement sql_no
loop_temp_tables_created_so_far(temp_tables, statements, sql_no) ==
    extract_temp_tables_from_script(SubSeq(statements, 1, sql_no))

\* the temp_tables the loop hands to process_single_sql for the statement
\* sql_no: the set computed before the loop
loop_temp_tables(temp_tables, statements, sql_no) == temp_tables

\* one iteration of the statement loop
process_statement ==
    /\ pc = "loop"
    /\ sql_index < Len(sql_statements)
    /\ LET sql_no == loop_sql_no(sql_index)
           r == process_single_sql(sql_statements[sql_index + 1],
                    loop_temp_tables(temp_table_set, sql_statements, sql_no),
                    current_db, args.etl_system, args.etl_job,
                    args.sql_path, sql_no, "oracle", global_metadata_provider)
       IN  /\ parser_calls' = parser_calls \o r.parser_calls
           /\ IF r.raised
              THEN \* the exception leaves process_sql_script
                   /\ UNCHANGED <<all_lineage_records, current_db, sql_index>>
                   /\ IF call_entry.sql.is_none
                      THEN /\ pc' = "returned"
                           /\ oracle_statements' = <<[kind |-> "FAILED"]>>
                      ELSE /\ pc' = "raised"
                           /\ UNCHANGED oracle_statements
              ELSE /\ all_lineage_records' =
                         extend(all_lineage_records, r.lineage_records)
                   /\ current_db' = r.new_current_database
                   /\ sql_index' = sql_index + 1
                   /\ pc' = "loop"
                   /\ UNCHANGED oracle_statements
    /\ first_result' = IF pc' = "returned" /\ run = 1
                       THEN oracle_statements' ELSE first_result
    /\ UNCHANGED <<run, run_limit, call_entry, script_text, metadata_loaded,
                   global_metadata_provider, args, temp_table_set,
                   sql_statements, rs_vars, nm_vars, aux_vars>>

\* the end of process_sql_script: the statements are rendered and returned
return_statements ==
    /\ pc = "loop"
    /\ sql_index = Len(sql_statements)
    /\ oracle_statements' = generate_oracle_insert_statements(
                                all_lineage_records, args.etl_system, args.etl_job)
    /\ first_result' = IF run = 1 THEN oracle_statements' ELSE first_result
    /\ pc' = "returned"
    /\ UNCHANGED <<run, run_limit, call_entry, script_text, metadata_loaded,
                   global_metadata_provider, args, temp_table_set, sql_statements,
                   sql_index, current_db, all_lineage_records,
                   parser_calls, rs_vars, nm_vars, aux_vars>>

Next == lineage_analysis \/ process_statement \/ return_statements

Spec == Init /\ [][Next]_vars

SpecRerun == InitRerun /\ [][Next]_vars

(***************************************************************************)
(* Properties of the resolver                                              *)
(***************************************************************************)
InputEdges == edges_of(cytoscape_data)

InputPairs == {<<InputEdges[k].source, InputEdges[k].target>> : k \in 1..Len(InputEdges)}

InputIds == {p[1] : p \in InputPairs} \cup {p[2] : p \in InputPairs}

\* a path s = p[1], ..., p[n] = t over the input edges through distinct nodes
IsSimplePath(p, s, t) ==
    /\ p[1] = s /\ p[Len(p)] = t
    /\ \A j, k \in 1..Len(p) : j # k => p[j] # p[k]
    /\ \A j \in 1..(Len(p)-1) : <<p[j], p[j+1]>> \in InputPairs

\* some path from s to t has more than one edge
HasLongerPath(s, t) ==
    \E n \in 3..Cardinality(InputIds) :
        \E p \in [1..n -> InputIds] : IsSimplePath(p, s, t)

KeptPairs == {<<lineage_paths[k].source, lineage_paths[k].target>> :
                 k \in 1..Len(lineage_paths)}

\* C1: once a statement graph is resolved, no input edge (s,t) between dotted
\* ids for which a path from s to t with more than one edge exists is among the
\* kept edges (from A->B, B->C, A->C only A->B and B->C are kept), whatever
\* the order of the input edges.
C1_RedundantEdgeDiscarded ==
    rs_pc = "done" =>
        \A p \in InputPairs :
            (contains(p[1], ".") /\ contains(p[2], ".") /\ HasLongerPath(p[1], p[2]))
                => p \notin KeptPairs

(***************************************************************************)
(* Subquery naming across script invocations                               *)
(***************************************************************************)
NamingEntries ==
    {[sql |-> Some(<<"t", "e", "x", "t", "1">>), file |-> None],
     [sql |-> Some(<<"t", "e", "x", "t", "2">>), file |-> None],
     FileEntry(<<<<"d">>, <<"a", ".", "s", "q", "l">>>>),
     FileEntry(<<<<"d">>, <<"b", ".", "s", "q", "l">>>>),
     FileEntry(<<<<"d">>, <<"F", "_", "1">>, <<"a", ".", "s", "q", "l">>>>),
     FileEntry(<<<<"d">>, <<"F", "_", "2">>, <<"a", ".", "s", "q", "l">>>>)}

\* a script invocation and the index of its statement holding the subquery a
NamingCalls == {[call_entry |-> e, sql_no |-> n] : e \in NamingEntries, n \in 1..MaxStmts}

NamingInit ==
    /\ nm_pc = "input"
    /\ nm_calls \in NamingCalls \X NamingCalls
    /\ nm_names = <<>>
    /\ EngineIdle
    /\ ResolverIdle
    /\ NormalizerIdle
    /\ ServiceIdle
    /\ TraceIdle
    /\ ProcessorIdle
    /\ ProviderIdle

\* the table name given to the column a.x of the subquery a in one invocation
subquery_table_of(call) ==
    extract_database_table_column(<<"a", ".", "x">>, {}, {<<"a">>}, <<>>,
        script_arguments(call.call_entry).etl_job, call.sql_no).table

name_subqueries ==
    /\ nm_pc = "input"
    /\ nm_names' = <<subquery_table_of(nm_calls[1]), subquery_table_of(nm_calls[2])>>
    /\ nm_pc' = "done"
    /\ UNCHANGED <<nm_calls, engine_vars, rs_vars, aux_vars>>

NamingNext == name_subqueries

SpecNaming == NamingInit /\ [][NamingNext]_vars

(***************************************************************************)
(* Properties of the engine                                                *)
(***************************************************************************)
Records == all_lineage_records

\* the statement a record came from
statement_of(record) == sql_statements[record.sql_no]

\* the code takes a statement for a database selector when a name comes out
IsSelector(st) == truthy(use_database_of[st])

\* the first word is USE in any letter case and a second word follows
IsUseWithSecondToken(st) ==
    Len(words_of(st)) >= 2 /\ upper(words_of(st)[1]) = <<"U", "S", "E">>

Max(S) == CHOOSE m \in S : \A n \in S : n <= m

SelectorsBefore(i) == {k \in 1..(i-1) : IsSelector(sql_statements[k])}

\* the name extracted from the latest selector before statement i, or empty
DatabaseInForce(i) ==
    IF SelectorsBefore(i) = {} THEN <<>>
    ELSE use_database_of[sql_statements[Max(SelectorsBefore(i))]].value

\* the database name of a selector statement as its text spells it
NameAsWritten(st) == strip(rstrip(words_of(st)[2], {";"}), QuoteChars)

endswith(s, suffix) ==
    Len(s) >= Len(suffix) /\ SubSeq(s, Len(s) - Len(suffix) + 1, Len(s)) = suffix

IsOrdinaryTable(table) ==
    ~endswith(table, TEMP_TABLE_SUFFIX) /\ ~endswith(table, SUBQUERY_TABLE_SUFFIX)

\* the parser raises on the statement or returns an empty or non-list graph
ParserFails(st) ==
    /\ ~IsSelector(st)
    /\ ~is_ddl_of[st]
    /\ \/ parser_of(st).outcome \in {"ctor_raises", "cytoscape_raises",
                                   "empty", "not_a_list"}
       \/ parser_of(st).graph = <<>>

\* ------------------------------------------------------------------ C2
LineageStatements == SelectSeq(sql_statements, LAMBDA st : ~IsSelector(st))

IsTempScript == LineageStatements = <<"ctas", "insert">>

\* exactly the single lineage src.x -> dst.x
TracedThrough ==
    /\ Len(Records) = 1
    /\ Records[1].source_table = <<"s", "r", "c">> /\ Records[1].source_column = <<"x">>
    /\ Records[1].target_table = <<"d", "s", "t">> /\ Records[1].target_column = <<"x">>

\* the tmp endpoint is the same tagged (database, table) on both sides
TaggedConsistently ==
    \A j, k \in 1..Len(Records) :
        (statement_of(Records[j]) = "ctas" /\ statement_of(Records[k]) = "insert")
        => /\ <<Records[j].target_database, Records[j].target_table>>
                = <<Records[k].source_database, Records[k].source_table>>
           /\ Records[j].target_table = <<"t", "m", "p">> \o TEMP_TABLE_SUFFIX

\* C2: for the script CREATE TEMP TABLE tmp AS SELECT x FROM src; INSERT INTO
\* dst SELECT x FROM tmp (database selectors may stand before, between or
\* after the two statements) the returned lineage is either the single record
\* src.x -> dst.x, or the tmp endpoint carries the identical tagged (database,
\* table) pair as target of the first and as source of the second statement.
C2_TempEndpointConsistent ==
    (pc = "returned" /\ IsTempScript) => (TracedThrough \/ TaggedConsistently)

C2_Witness ==
    /\ pc = "returned"
    /\ sql_statements = <<"ctas", "use_a", "insert">>
    /\ Len(Records) = 2
    /\ Records[1].target_table = Records[2].source_table
    /\ Records[1].source_database # Records[2].target_database

\* ------------------------------------------------------------------ C3
\* C3: after a selector USE d, every record of a later statement whose
\* endpoint is an ordinary table without a database in its id carries the
\* database d as the USE statement spells it, and no record comes from the
\* selector statement itself.
C3_SelectedNameAsWritten ==
    \A k \in 1..Len(Records) :
        LET i == Records[k].sql_no
            d == NameAsWritten(sql_statements[Max(SelectorsBefore(i))])
        IN  /\ ~IsSelector(sql_statements[i])
            /\ SelectorsBefore(i) # {} =>
                 /\ IsOrdinaryTable(Records[k].source_table)
                       => Records[k].source_database = d
                 /\ IsOrdinaryTable(Records[k].target_table)
                       => Records[k].target_database = d

\* ------------------------------------------------------------------ C4
\* C4: a statement whose first word is USE (any case) and that has a second
\* word never reaches the parser and yields no record.
C4_UseNeverParsed ==
    /\ \A k \in 1..Len(parser_calls) :
          ~IsUseWithSecondToken(sql_statements[parser_calls[k].sql_no])
    /\ \A k \in 1..Len(Records) : ~IsUseWithSecondToken(statement_of(Records[k]))

RecordsOfStatement(k) ==
    process_single_sql(sql_statements[k], temp_table_set, DatabaseInForce(k),
        args.etl_system, args.etl_job, args.sql_path, k, "oracle",
        global_metadata_provider).lineage_records

RECURSIVE RecordsUpTo(_)
RecordsUpTo(n) ==
    IF n = 0 THEN <<>> ELSE RecordsUpTo(n - 1) \o RecordsOfStatement(n)

\* C7: the accumulated list is the concatenation, in statement order, of
\* what each processed statement produced, each record numbered with the
\* 1-based index of its statement among all split statements, so that sql_no
\* never decreases along the list.
C7_RecordsInStatementOrder ==
    pc \in {"loop", "returned"} =>
        /\ Records = RecordsUpTo(sql_index)
        /\ \A j, k \in 1..Len(Records) : j < k => Records[j].sql_no <= Records[k].sql_no
        /\ \A k \in 1..Len(Records) : Records[k].sql_no \in 1..sql_index

C7_Witness ==
    /\ pc = "returned"
    /\ sql_statements = <<"ctas", "drop", "insert_subquery">>
    /\ Len(Records) = 3
    /\ Records[1].sql_no = 1
    /\ Records[2].sql_no = 3

\* ------------------------------------------------------------------ C8
\* C8: when the parser raises or returns an empty or non-list graph for the
\* statement at hand, the loop moves on to the next statement with the
\* accumulated records and the current database unchanged, and no exception
\* ends the call.
C8_ParserFailureSkipsStatement ==
    [][ (pc = "loop" /\ sql_index < Len(sql_statements)
            /\ ParserFails(sql_statements[sql_index + 1]))
        => (/\ pc' = "loop"
            /\ sql_index' = sql_index + 1
            /\ all_lineage_records' = all_lineage_records
            /\ current_db' = current_db) ]_vars

C8_Witness ==
    /\ pc = "returned"
    /\ sql_statements = <<"ctas", "from_raises", "insert">>
    /\ Len(Records) = 2
    /\ Records[2].sql_no = 3

\* ------------------------------------------------------------------ C9
\* C9: a later call of lineage_analysis in the same process on the same
\* input returns what the first call returned.
C9_RerunIdentical ==
    (pc = "returned" /\ run >= 2) => oracle_statements = first_result

C9_Witness ==
    /\ pc = "returned"
    /\ run = 2
    /\ sql_statements = <<"ctas", "use_a">>
    /\ global_metadata_provider = DummyMetaDataProvider(MetadataConfigTemplate)
    /\ Len(oracle_statements) = 7

\* ------------------------------------------------------------------ C10
Lines == oracle_statements

LinesOfKind(kind) == {k \in 1..Len(Lines) : Lines[k].kind = kind}

DeleteBeforeInserts ==
    /\ Cardinality(LinesOfKind("DELETE")) = 1
    /\ \A k \in LinesOfKind("DELETE") :
          /\ Lines[k] = delete_statement(args.etl_system, args.etl_job)
          /\ \A j \in LinesOfKind("INSERT") : k < j

CommitAfterInserts ==
    /\ Cardinality(LinesOfKind("COMMIT")) = 1
    /\ \A k \in LinesOfKind("COMMIT") : \A j \in LinesOfKind("INSERT") : j < k

C6_SubqueryNamesDistinct ==
    (nm_pc = "done" /\ nm_calls[1].call_entry # nm_calls[2].call_entry)
        => nm_names[1] # nm_names[2]

(***************************************************************************)
(* Usage errors of the entry point                                         *)
(***************************************************************************)
BothGiven == ~call_entry.sql.is_none /\ ~call_entry.file.is_none

NoneGiven == call_entry.sql.is_none /\ call_entry.file.is_none

\* C11: a call of lineage_analysis with both sql and file, or with neither,
\* ends in ValueError: no statement has been split or parsed, the ephemeral
\* set is not computed and no output text is returned.
C11_UsageErrorRaises ==
    (run >= 1 /\ (BothGiven \/ NoneGiven))
        => /\ pc = "value_error"
           /\ sql_statements = <<>>
           /\ temp_table_set = {}
           /\ parser_calls = <<>>
           /\ all_lineage_records = <<>>
           /\ oracle_statements = <<>>

\* a call with both arguments has raised, on a script that has statements
C11_Witness ==
    /\ pc = "value_error"
    /\ BothGiven
    /\ Len(script_text) >= 2

(***************************************************************************)
(* Properties of the identifier normalizer                                 *)
(***************************************************************************)
NzEnds == {"source", "target"}

\* the parts the id of one end of the pair was written with
PartsOf(end) ==
    IF end = "source" THEN nz_input.source_parts ELSE nz_input.target_parts

InfoOf(end) == IF end = "source" THEN nz_source_info ELSE nz_target_info

\* the table part of an id: the part before the column
TablePartOf(end) ==
    LET p == PartsOf(end) IN IF Len(p) >= 2 THEN p[Len(p) - 1] ELSE <<>>

\* the database prefix an id is written with (empty: none)
PrefixOf(end) ==
    LET p == PartsOf(end) IN IF Len(p) >= 3 THEN p[1] ELSE <<>>

IsSubqueryEnd(end) ==
    TablePartOf(end) # <<>> /\ TablePartOf(end) \in nz_input.subquery_nodes

IsEphemeralEnd(end) ==
    TablePartOf(end) # <<>> /\ lower(TablePartOf(end)) \in nz_input.temp_tables

\* an ordinary table, or no table at all
IsOrdinaryEnd(end) == ~IsSubqueryEnd(end) /\ ~IsEphemeralEnd(end)

IsSentinel(d) == d \in {DefaultDb, UnknownDb}

Triple(info) == <<info.database, info.table, info.column>>

\* a pair with an end without table is dropped, and nothing else fails
EmptyTableDropsPair ==
    (nz_source_info.table = <<>> \/ nz_target_info.table = <<>>)
        => nz_records = <<>>

\* C12 as stated: for an ordinary table and an empty current_database a
\* 3-part id d.t.c is normalized to (d, t, c), a 2-part id t.c to (empty, t, c)
\* and a 1-part id c to (empty, empty, c); a pair with an end whose table is
\* empty is dropped.
C12_PartsAsWritten ==
    nz_pc = "done" =>
       /\ \A end \in NzEnds :
             (IsOrdinaryEnd(end) /\ nz_input.current_database = <<>>)
                => LET p == PartsOf(end)
                   IN  Triple(InfoOf(end)) =
                          CASE Len(p) = 3 -> <<p[1], p[2], p[3]>>
                            [] Len(p) = 2 -> <<<<>>, p[1], p[2]>>
                            [] Len(p) = 1 -> <<<<>>, <<>>, p[1]>>
       /\ EmptyTableDropsPair

\* C12 amended: the same, where a 3-part id whose first part is one of the
\* parser's sentinels '<default>' / '<unknown>' gets the empty database.
C12_PartsSentinelEmpty ==
    nz_pc = "done" =>
       /\ \A end \in NzEnds :
             (IsOrdinaryEnd(end) /\ nz_input.current_database = <<>>)
                => LET p == PartsOf(end)
                   IN  Triple(InfoOf(end)) =
                          CASE Len(p) = 3 ->
                                  <<IF IsSentinel(p[1]) THEN <<>> ELSE p[1],
                                    p[2], p[3]>>
                            [] Len(p) = 2 -> <<<<>>, p[1], p[2]>>
                            [] Len(p) = 1 -> <<<<>>, <<>>, p[1]>>
       /\ EmptyTableDropsPair

\* db.t.x -> x: the source keeps its three parts, the target has no table
\* and the pair is dropped
C12_Witness ==
    /\ nz_pc = "done"
    /\ nz_input.source_parts = <<<<"d", "b">>, <<"t">>, <<"x">>>>
    /\ nz_input.target_parts = <<<<"x">>>>
    /\ nz_input.current_database = <<>>
    /\ Triple(nz_source_info) = <<<<"d", "b">>, <<"t">>, <<"x">>>>
    /\ nz_target_info.table = <<>>
    /\ nz_records = <<>>

\* C13: in every record an endpoint whose table part is a SubQuery node id
\* has database '<SUBQUERY_DB>', whatever prefix its id carries, whatever
\* current_database is and whether or not the name is also ephemeral.
C13_SubqueryDatabaseSentinel ==
    \A k \in 1..Len(nz_records) :
       /\ IsSubqueryEnd("source") => nz_records[k].source_database = SUBQUERY_DB
       /\ IsSubqueryEnd("target") => nz_records[k].target_database = SUBQUERY_DB

\* a record whose source db.q.x is a subquery column with a database prefix,
\* q being also in the ephemeral set, under a default database
C13_Witness ==
    /\ nz_pc = "done"
    /\ Len(nz_records) = 1
    /\ nz_input.source_parts = <<<<"d", "b">>, <<"q">>, <<"x">>>>
    /\ nz_input.subquery_nodes = {<<"q">>}
    /\ <<"q">> \in nz_input.temp_tables
    /\ nz_input.current_database = <<"c", "u", "r">>
    /\ nz_records[1].source_database = SUBQUERY_DB

\* C14: an ephemeral non-subquery table whose id has no database, or only a
\* parser sentinel, gets database 'SCHEMA_TMP' whatever current_database is;
\* one with an explicit database keeps it.
C14_EphemeralSchema ==
    nz_pc = "done" =>
       \A end \in NzEnds :
          (IsEphemeralEnd(end) /\ ~IsSubqueryEnd(end))
             => InfoOf(end).database =
                   IF PrefixOf(end) = <<>> \/ IsSentinel(PrefixOf(end))
                   THEN SCHEMA_TMP
                   ELSE PrefixOf(end)

\* <default>.Tmp.x under the default database cur is put in SCHEMA_TMP while
\* the other end db.Tmp.x keeps db
C14_Witness ==
    /\ nz_pc = "done"
    /\ nz_input.source_parts = <<DefaultDb, <<"T", "m", "p">>, <<"x">>>>
    /\ nz_input.target_parts = <<<<"d", "b">>, <<"T", "m", "p">>, <<"x">>>>
    /\ nz_input.temp_tables = {<<"t", "m", "p">>}
    /\ nz_input.current_database = <<"c", "u", "r">>
    /\ nz_source_info.database = SCHEMA_TMP
    /\ nz_target_info.database = <<"d", "b">>

\* the table name an end must carry in the tagging variant
TaggedName(end) ==
    IF IsSubqueryEnd(end) THEN TablePartOf(end) \o SUBQUERY_TABLE_SUFFIX
    ELSE IF IsEphemeralEnd(end) THEN TablePartOf(end) \o TEMP_TABLE_SUFFIX
    ELSE TablePartOf(end)

\* C15 (tagging variant): every record endpoint's table name is its table
\* part with suffix _SUBQRY_TBL when that part is a SubQuery node id, else
\* with suffix _TEMP_TBL when its lower-cased form is in the ephemeral set,
\* else as it is; the subquery tag wins when both apply, and a pair both of
\* whose ends have a table is recorded whatever the kinds of the tables.
C15_TagsExactlyOneForm ==
    nz_pc = "done" =>
       /\ \A k \in 1..Len(nz_records) :
             /\ nz_records[k].source_table = TaggedName("source")
             /\ nz_records[k].target_table = TaggedName("target")
       /\ (TablePartOf("source") # <<>> /\ TablePartOf("target") # <<>>)
             => Len(nz_records) = 1

\* a record from the subquery q, which is also ephemeral, into the
\* ephemeral table Tmp: both ends are kept, q tagged as subquery
C15_Witness ==
    /\ nz_pc = "done"
    /\ Len(nz_records) = 1
    /\ nz_input.source_parts = <<<<"q">>, <<"x">>>>
    /\ nz_input.target_parts = <<<<"T", "m", "p">>, <<"x">>>>
    /\ nz_input.subquery_nodes = {<<"q">>}
    /\ nz_input.temp_tables = {<<"t", "m", "p">>, <<"q">>}
    /\ nz_records[1].source_table = <<"q", "_", "S", "U", "B", "Q", "R", "Y", "_", "T", "B", "L">>
    /\ nz_records[1].target_table = <<"T", "m", "p", "_", "T", "E", "M", "P", "_", "T", "B", "L">>

(***************************************************************************)
(* CREATE statements                                                       *)
(***************************************************************************)
\* the statement begins CREATE [TEMPORARY|TEMP] TABLE|VIEW
BeginsCreateTableOrView(st) ==
    LET w == [k \in 1..Len(words_of(st)) |-> upper(words_of(st)[k])]
    IN  /\ Len(w) >= 2
        /\ w[1] = <<"C", "R", "E", "A", "T", "E">>
        /\ \/ w[2] \in {<<"T", "A", "B", "L", "E">>, <<"V", "I", "E", "W">>}
           \/ Len(w) >= 3 /\ w[2] \in {<<"T", "E", "M", "P", "O", "R", "A", "R", "Y">>, <<"T", "E", "M", "P">>}
                          /\ w[3] \in {<<"T", "A", "B", "L", "E">>, <<"V", "I", "E", "W">>}

\* the tokens of a word, parentheses being delimiters like whitespace
RECURSIVE tokens_of_word(_)
tokens_of_word(w) ==
    IF w = <<>> THEN {}
    ELSE IF w[1] \in {"(", ")"} THEN tokens_of_word(Tail(w))
    ELSE LET n == CHOOSE j \in 1..Len(w) :
                     /\ \A h \in 1..j : w[h] \notin {"(", ")"}
                     /\ (j = Len(w) \/ w[j+1] \in {"(", ")"})
         IN  {SubSeq(w, 1, n)} \cup tokens_of_word(SubSeq(w, n+1, Len(w)))

KeywordTokens(st) ==
    UNION {tokens_of_word(upper(words_of(st)[k])) : k \in 1..Len(words_of(st))}

IsCreateAsSelect(st) == <<"A", "S">> \in KeywordTokens(st) /\ <<"S", "E", "L", "E", "C", "T">> \in KeywordTokens(st)

ParsedAt(i) == \E k \in 1..Len(parser_calls) : parser_calls[k].sql_no = i

\* C16: a processed statement beginning CREATE [TEMPORARY|TEMP] TABLE|VIEW has
\* been handed to the parser if and only if it is a CREATE-AS-SELECT: it holds
\* the keywords AS and SELECT, delimited by whitespace or by parentheses.
C16_CreateAsSelectParsed ==
    pc \in {"loop", "returned"} =>
       \A i \in 1..sql_index :
          BeginsCreateTableOrView(sql_statements[i])
             => (ParsedAt(i) <=> IsCreateAsSelect(sql_statements[i]))

(***************************************************************************)
(* Properties of the tracing through subqueries                            *)
(***************************************************************************)
\* the column id belongs to a SubQuery node of the graph
OwnedBySubquery(id) == \E t \in rs_subquery_nodes : id = col(t)

\* the input edges leaving a subquery column for a column outside subqueries
SubqueryExitEdges ==
    {k \in 1..Len(InputEdges) :
        /\ OwnedBySubquery(InputEdges[k].source)
        /\ ~OwnedBySubquery(InputEdges[k].target)}

\* the real sources tracing finds from the subquery column s
TracedSourcesOf(s) ==
    LET rs == trace_to_real_source(s, {}, InputEdges, nodes_dict(cytoscape_data),
                                   rs_subquery_nodes, rs_temp_tables)
    IN  {rs[j] : j \in 1..Len(rs)}

\* the exit edges from which lineage_sql_with_database starts a tracing: the
\* first one of each subquery column, when it was not kept as a direct edge
TracingStartedAt ==
    {k \in SubqueryExitEdges :
        /\ \A j \in SubqueryExitEdges :
              j < k => InputEdges[j].source # InputEdges[k].source
        /\ <<InputEdges[k].source, InputEdges[k].target>> \notin KeptPairs}

\* C18: whenever lineage_sql_with_database traces from the subquery-owned
\* source s of an edge (s,t) with non-subquery target t and finds the real
\* source r, the pair (r,t) is among the resolved edges.
C18_TracedPairAdded ==
    rs_pc = "done" =>
       \A k \in TracingStartedAt :
          \A r \in TracedSourcesOf(InputEdges[k].source) :
             <<r, InputEdges[k].target>> \in KeptPairs

\* the node of the column id has a Table candidate that is not ephemeral
HasRealTableCandidate(id) ==
    LET nodes == nodes_dict(cytoscape_data)
    IN  /\ id \in DOMAIN nodes
        /\ "parent_candidates" \in DOMAIN nodes[id]
        /\ \E j \in 1..Len(nodes[id].parent_candidates) :
              /\ nodes[id].parent_candidates[j].type = "Table"
              /\ lower(nodes[id].parent_candidates[j].name) \notin rs_temp_tables

\* the kept direct edges of the tagging variant: the column-to-column edges
DirectPairs ==
    {p \in InputPairs : contains(p[1], ".") /\ contains(p[2], ".")}

\* C19: every source that tracing accepted as a real source (the source of
\* a resolved pair that is not a direct edge) has a node whose
\* parent_candidates hold a Table candidate outside the ephemeral set.
C19_RealSourceHasTableCandidate ==
    rs_pc = "done" =>
       \A p \in KeptPairs \ DirectPairs : HasRealTableCandidate(p[1])

\* C20 (tagging variant): for every input edge (s,t) with s subquery-owned and
\* t not, and every real source r traced from s, the pair (r,t) is in the
\* output, also when s has edges to several such targets.
C20_EveryExitEdgeTraced ==
    rs_pc = "done" =>
       \A k \in SubqueryExitEdges :
          \A r \in TracedSourcesOf(InputEdges[k].source) :
             <<r, InputEdges[k].target>> \in KeptPairs

(***************************************************************************)
(* Properties of the metadata service                                      *)
(***************************************************************************)
\* start_service of the instance has returned True and its cleanup has not
\* begun
Running(i) == zc_pc[i] = "running"

\* C17: while an instance is running, a client lookup of the name finds a
\* segment (is_service_running) holding the complete metadata (get_metadata),
\* and that segment is the one the instance created: no other instance's
\* start or cleanup has removed or replaced it.
C17_RunningSegmentServed ==
    \A i \in Instances :
       Running(i) =>
          /\ is_service_running(zc_named)
          /\ get_metadata(zc_named, zc_buf) = "metadata"
          /\ attach(zc_named) = zc_shared_memories[i]

(***************************************************************************)
(* Termination of the tracing functions                                    *)
(***************************************************************************)
TracePairs == {<<tr_edges[k].source, tr_edges[k].target>> : k \in 1..Len(tr_edges)}

\* a column the tracing walks through: owned by a subquery or ephemeral
IsWalkedThrough(id) ==
    \/ is_subquery_column(id, tr_subquery_nodes)
    \/ is_temp_table_column(id, rs_temp_tables)

\* the edges of the graph hold a self-loop or a two-column cycle on id, among
\* columns the tracing walks through
OnTracingCycle(id) ==
    /\ IsWalkedThrough(id)
    /\ \E other \in ColumnIds :
          /\ IsWalkedThrough(other)
          /\ <<id, other>> \in TracePairs
          /\ <<other, id>> \in TracePairs

\* the step-by-step run returns what the function computes
StepsAgreeWithFunctions ==
    tr_pc = "done" =>
        IF tr_call.fn = "trace_to_real_source"
        THEN tr_result = <<trace_to_real_source(tr_call.source, {}, tr_edges, tr_nodes,
                                                tr_subquery_nodes, rs_temp_tables)>>
        ELSE tr_result = <<has_intermediate_path(tr_edges, tr_call.source, tr_call.target)>>

\* C21: on every graph, cycles and self-loops among subquery-owned or
\* ephemeral columns included, a started call of trace_to_real_source (with
\* the calls of trace_through_temp_tables it makes) or of
\* has_intermediate_path returns.
C21_TracingTerminates == (tr_pc \in {"tracing", "searching"}) ~> (tr_pc = "done")

\* a tracing call that started on a cycle has returned
C21_Witness ==
    /\ tr_pc = "done"
    /\ tr_call.fn = "trace_to_real_source"
    /\ OnTracingCycle(tr_call.source)

(***************************************************************************)
(* Sibling branches of the tracing                                         *)
(***************************************************************************)
\* the sequences of edges a tracing from the start can walk back along: each
\* edge enters the column the previous one left, no column is met twice,
\* every column walked through is subquery-owned or ephemeral and the last
\* column is a real table column
EdgesInto(id) == {k \in 1..Len(tr_edges) : tr_edges[k].target = id}

\* the sequences of n edges that lead back from the start, edge after edge
RECURSIVE WalksOfLength(_)
WalksOfLength(n) ==
    IF n = 1 THEN {<<k>> : k \in EdgesInto(tr_call.source)}
    ELSE UNION {{Append(p, k) : k \in EdgesInto(tr_edges[p[n-1]].source)} :
                   p \in WalksOfLength(n-1)}

EdgeWalks == UNION {WalksOfLength(n) : n \in 1..Len(tr_edges)}

ColumnsOnWalk(p) == {tr_call.source} \cup {tr_edges[p[i]].source : i \in 1..Len(p)}

IsBranchWalk(p) ==
    /\ tr_edges[p[1]].target = tr_call.source
    /\ \A i \in 1..(Len(p)-1) : tr_edges[p[i+1]].target = tr_edges[p[i]].source
    /\ Cardinality(ColumnsOnWalk(p)) = Len(p) + 1
    /\ \A i \in 1..(Len(p)-1) : IsWalkedThrough(tr_edges[p[i]].source)
    /\ ~IsWalkedThrough(tr_edges[p[Len(p)]].source)

BranchWalks == {p \in EdgeWalks : IsBranchWalk(p)}

WalksEndingAt(walks, r) == {p \in walks : tr_edges[p[Len(p)]].source = r}

TimesReturned(r) == Cardinality({k \in 1..Len(tr_result[1]) : tr_result[1][k] = r})

\* C22: trace_to_real_source returns a real source once for every walk that
\* leads back to it, whichever columns its sibling branches walked through:
\* a column met along one branch does not block another branch.
C22_EachBranchTracedAlone ==
    (tr_pc = "done" /\ tr_call.fn = "trace_to_real_source") =>
        LET walks == BranchWalks
        IN  \A r \in BranchSources :
                TimesReturned(r) = Cardinality(WalksEndingAt(walks, r))

\* two sibling sources of b.x lead back through the same column to a real
\* source, and it is returned through both
C22_Witness ==
    /\ tr_pc = "done"
    /\ tr_call.fn = "trace_to_real_source"
    /\ \E p1, p2 \in BranchWalks :
          /\ tr_edges[p1[1]].source # tr_edges[p2[1]].source
          /\ \E i \in 1..(Len(p1)-1), j \in 1..(Len(p2)-1) :
                tr_edges[p1[i]].source = tr_edges[p2[j]].source
          /\ TimesReturned(tr_edges[p1[Len(p1)]].source) >= 2

(***************************************************************************)
(* Records of the OptimizedSQLLineageProcessor                             *)
(***************************************************************************)
\* the records the k-th statement of the script produces
ProcessorRecordsOf(k) ==
    processor_process_single_sql(<<>>, op_sql_statements[k], op_temp_tables)

RECURSIVE ProcessorRecordsUpTo(_)
ProcessorRecordsUpTo(n) ==
    IF n = 0 THEN <<>> ELSE ProcessorRecordsUpTo(n-1) \o ProcessorRecordsOf(n)

InsertedRecords ==
    LET inserts == SelectSeq(op_oracle_statements, LAMBDA l : l.kind = "INSERT")
    IN  [k \in 1..Len(inserts) |-> inserts[k].record]

\* C23: after process_sql_script, self.lineage_records and the INSERT lines
\* hold the records of every statement, in statement order.
C23_RecordsOfAllStatementsKept ==
    op_pc = "returned" =>
        /\ op_lineage_records = ProcessorRecordsUpTo(Len(op_sql_statements))
        /\ InsertedRecords = ProcessorRecordsUpTo(Len(op_sql_statements))

(***************************************************************************)
(* The ephemeral set of a script                                           *)
(***************************************************************************)
\* a table name of a record stands in the record as the ephemeral table it is
\* in the whole script: tagged, or not in the set of the whole script
TaggedAsInWholeScript(table) ==
    IsOrdinaryTable(table) =>
        ~is_temp_table(table, extract_temp_tables_from_script(script_text))

\* C24: while and after the statements of a script are processed the
\* ephemeral set is the one computed from the whole script text, and every
\* record treats a table of that set as ephemeral, also a record of a
\* statement that stands before the CREATE of the table.
C24_EphemeralSetOfWholeScript ==
    pc \in {"loop", "returned", "raised"} =>
        /\ temp_table_set = extract_temp_tables_from_script(script_text)
        /\ \A k \in 1..Len(Records) :
              /\ TaggedAsInWholeScript(Records[k].source_table)
              /\ TaggedAsInWholeScript(Records[k].target_table)

\* the INSERT reading tmp stands before the CREATE of tmp, and its record
\* has tmp as an ephemeral table
C24_Witness ==
    /\ pc = "returned"
    /\ sql_statements = <<"insert", "ctas">>
    /\ Len(Records) = 2
    /\ Records[1].sql_no = 1
    /\ Records[1].source_table = <<"t", "m", "p">> \o TEMP_TABLE_SUFFIX

(***************************************************************************)
(* The names of the ephemeral set                                          *)
(***************************************************************************)
IsCleanName(name) ==
    /\ name = lower(name)
    /\ ~contains(name, ".")
    /\ \A k \in 1..Len(name) : name[k] \notin QuoteChars

\* the table names the CREATE statements of a statement define, as the text
\* spells them: the last dotted segment of the target without its quoting
CreateTargetsUnquoted(st) ==
    LET w == words_of(st)
    IN  {LET ps == split(create_match(w, k), ".")
         IN  strip(ps[Len(ps)], QuoteChars) :
            k \in {j \in 1..Len(w) : create_match(w, j) # <<>>}}

\* C25: every name of the set extract_temp_tables_from_script returns is
\* lower-case, without '.' and without quoting or bracket character, however
\* the CREATE target is spelled, and is_temp_table is true on the unquoted
\* table name of every CREATE target.
C25_EphemeralNamesClean ==
    pc = "loop" =>
        /\ \A name \in temp_table_set : IsCleanName(name)
        /\ \A k \in 1..Len(sql_statements) :
              \A t \in CreateTargetsUnquoted(sql_statements[k]) :
                  is_temp_table(t, temp_table_set)

(***************************************************************************)
(* The database of an ordinary table                                       *)
(***************************************************************************)
HasExplicitDatabase(end) == PrefixOf(end) # <<>> /\ ~IsSentinel(PrefixOf(end))

\* C26: an ordinary table gets the explicit database of its id when there is
\* one; otherwise (no database, or a parser sentinel) the current database
\* when that is not empty, and the empty database when it is.
C26_OrdinaryDatabase ==
    nz_pc = "done" =>
        \A end \in NzEnds :
            (IsOrdinaryEnd(end) /\ TablePartOf(end) # <<>>) =>
                InfoOf(end).database =
                    IF HasExplicitDatabase(end) THEN PrefixOf(end)
                    ELSE IF nz_input.current_database # <<>>
                    THEN nz_input.current_database
                    ELSE <<>>

\* with a current database in force, a table with an explicit database kept
\* it and a table with a sentinel got the current one
C26_Witness ==
    /\ nz_pc = "done"
    /\ nz_input.current_database # <<>>
    /\ IsOrdinaryEnd("source") /\ HasExplicitDatabase("source")
    /\ nz_source_info.database = PrefixOf("source")
    /\ IsOrdinaryEnd("target") /\ IsSentinel(PrefixOf("target"))
    /\ nz_target_info.database = nz_input.current_database

(***************************************************************************)
(* The cached metadata provider                                            *)
(***************************************************************************)
\* the provider in the cache before the k-th call
RECURSIVE ProviderBefore(_)
ProviderBefore(k) ==
    IF k = 1 THEN "None"
    ELSE get_metadata_for_lineage(md_calls[k-1], ProviderBefore(k-1), md_loaded).cached

\* C27: every call returns a provider of the file it names, the cached one
\* only when that was built for this file; a call that finds no metadata
\* returns None and leaves the cache as it was.
C27_ProviderOfNamedFile ==
    \A k \in 1..Len(md_returned) :
        IF md_calls[k] \in md_loaded
        THEN md_returned[k] = DummyMetaDataProvider(md_calls[k])
        ELSE /\ md_returned[k] = "None"
             /\ k < Len(md_returned) => ProviderBefore(k+1) = ProviderBefore(k)

(***************************************************************************)
(* The tracing predicates against the normalizer                           *)
(***************************************************************************)
\* the id of one end of the pair as the resolver sees it
IdOf(end) == IF end = "source" THEN nz_path.source ELSE nz_path.target

\* C28: is_subquery_column and is_temp_table_column hold of an id exactly when
\* extract_database_table_column tags the table of the same id SubQuery and
\* Ephemeral, for 2-part and 3-part ids alike.
C28_PredicatesAgreeWithTags ==
    nz_pc = "done" =>
        \A end \in NzEnds :
            /\ is_subquery_column(IdOf(end), nz_input.subquery_nodes)
                   <=> endswith(InfoOf(end).table, SUBQUERY_TABLE_SUFFIX)
            /\ is_temp_table_column(IdOf(end), nz_input.temp_tables)
                   <=> endswith(InfoOf(end).table, TEMP_TABLE_SUFFIX)

(***************************************************************************)
(* Soundness of the resolved pairs                                         *)
(***************************************************************************)
\* the ids reached from the ids of from by one or more input edges
RECURSIVE ReachedFrom(_, _)
ReachedFrom(from, reached) ==
    LET next == {p[2] : p \in {q \in InputPairs : q[1] \in from}}
    IN  IF next \subseteq reached THEN reached
        ELSE ReachedFrom(next \ reached, reached \cup next)

IsReachable(s, t) == t \in ReachedFrom({s}, {})

\* C29: every pair (s,t) either variant of trace_lineage_through_subqueries
\* returns is joined by a directed path of input edges from s to t.
C29_PairsFollowInputPaths ==
    rs_pc = "done" => \A p \in KeptPairs : IsReachable(p[1], p[2])

\* a pair traced through a subquery column was returned next to a direct one
C29_Witness ==
    /\ rs_pc = "done"
    /\ \E p \in KeptPairs : p \notin InputPairs /\ IsReachable(p[1], p[2])
    /\ \E p \in KeptPairs : p \in InputPairs

(***************************************************************************)
(* What cleanup leaves behind                                              *)
(***************************************************************************)
\* a step in which instance i runs self.cleanup()
CleanupRuns(i) == cleanup(i) \/ signal_handler(i) \/ exit_handler(i)

\* C30: when cleanup has run, from keep_running, the signal handler (at any
\* point of start_service) or the atexit handler, the name refers to no
\* segment the instance created, its shared_memories is empty and is_creator
\* is False; the second cleanup, of the atexit handler, changes nothing.
C30_CleanupLeavesNothing ==
    [][\A i \in Instances :
          CleanupRuns(i) =>
              /\ zc_named' \notin zc_created'[i]
              /\ zc_shared_memories'[i] = 0
              /\ ~zc_is_creator'[i]
              /\ exit_handler(i) =>
                     UNCHANGED <<zc_named, zc_shared_memories, zc_is_creator>>]_vars

====
